---- MODULE Spec2Model ----
(***************************************************************************)
(* PathwiseAI backend: roadmap generation (RoadmapService), the chat       *)
(* assistant (AIService) and the job search (JobService), modelled from    *)
(*   src/backend/app/services/roadmap_service.py                           *)
(*   src/backend/app/services/ai_service.py                                *)
(*   src/backend/app/services/job_service.py                               *)
(*                                                                         *)
(* Python values are modelled as records.  A dict key that may be absent   *)
(* or carry a value of the wrong JSON type has a companion "...Type"       *)
(* field ("list"/"str", "absent", "bad"); the exceptions Python raises on  *)
(* an ill-typed value (AttributeError, TypeError) are modelled by the      *)
(* predicates named ...Raises and routed to the except clause of the       *)
(* enclosing try block, as in the source.                                  *)
(*                                                                         *)
(* Career names and keywords are sequences of one-character strings, so    *)
(* that str.lower() and the "kw in name" substring test are computed.      *)
(***************************************************************************)
EXTENDS Integers, Sequences, FiniteSets, TLC

(***************************** bounds **************************************)
\* largest number of skills a catalog entry carries in the model
MaxSkills == 11
\* number of chat turns explored for one user
MaxTurns == 9

(************************ Python string helpers ****************************)
UpperChars == <<"A","B","C","D","E","F","G","H","I","J","K","L","M","N","O","P","Q","R","S","T","U","V","W","X","Y","Z">>
LowerChars == <<"a","b","c","d","e","f","g","h","i","j","k","l","m","n","o","p","q","r","s","t","u","v","w","x","y","z">>

\* str.lower() on one character
LowerChar(c) ==
  IF \E i \in 1..26 : UpperChars[i] = c
  THEN LowerChars[CHOOSE i \in 1..26 : UpperChars[i] = c]
  ELSE c

\* str.lower()
Lower(s) == [i \in 1..Len(s) |-> LowerChar(s[i])]

\* Python "kw in s" for strings
Contains(s, kw) ==
  \E i \in 0..(Len(s) - Len(kw)) : SubSeq(s, i + 1, i + Len(kw)) = kw

\* a condition in disjunctive normal form over "kw in career_lower"
MatchesDNF(lowered, dnf) ==
  \E conj \in dnf : \A kw \in conj : Contains(lowered, kw)

(************************ generic sequence helpers *************************)
\* Python xs[:n]
Take(xs, n) == SubSeq(xs, 1, IF n < Len(xs) THEN n ELSE Len(xs))
\* Python xs[a:b] with 0 <= a
Slice(xs, a, b) == SubSeq(xs, a + 1, IF b < Len(xs) THEN b ELSE Len(xs))
\* Python xs[a:]
Drop(xs, a) == SubSeq(xs, a + 1, Len(xs))
\* Python xs[-n:] for n > 0
LastN(xs, n) == IF Len(xs) <= n THEN xs ELSE SubSeq(xs, Len(xs) - n + 1, Len(xs))

(********************* curated career resources ****************************)
\* the if/elif chain of _get_career_specific_resources, in source order;
\* cond is the branch condition, resources the records the branch extends
CuratedTable ==
  <<
     [cond |-> {{<<"s","o","f","t","w","a","r","e">>, <<"e","n","g","i","n","e","e","r">>}, {<<"s","o","f","t","w","a","r","e"," ","e","n","g","i","n","e","e","r">>}, {<<"c","o","m","p","u","t","e","r"," ","s","c","i","e","n","c","e">>}},
      resources |-> <<
        [url |-> "https://www.freecodecamp.org/learn/", title |-> "FreeCodeCamp: Full Stack Development Curriculum", platform |-> "FreeCodeCamp"], 
        [url |-> "https://www.coursera.org/specializations/computer-science", title |-> "Coursera: Introduction to Computer Science and Programming Specialization (University of London)", platform |-> "Coursera"]>>],
     [cond |-> {{<<"d","a","t","a">>, <<"s","c","i","e","n","t","i","s","t">>}, {<<"d","a","t","a"," ","s","c","i","e","n","c","e">>}},
      resources |-> <<
        [url |-> "https://www.datacamp.com/tracks/data-scientist-with-python", title |-> "DataCamp: Data Scientist with Python Career Track", platform |-> "DataCamp"], 
        [url |-> "https://www.edx.org/micromasters/data-science", title |-> "edX: Data Science MicroMasters (UC San Diego)", platform |-> "edX"]>>],
     [cond |-> {{<<"a","i">>, <<"e","n","g","i","n","e","e","r">>}, {<<"a","r","t","i","f","i","c","i","a","l"," ","i","n","t","e","l","l","i","g","e","n","c","e">>}},
      resources |-> <<
        [url |-> "https://www.deeplearning.ai/courses/ai-for-everyone/", title |-> "DeepLearning.AI: AI For Everyone", platform |-> "DeepLearning.AI"], 
        [url |-> "https://www.coursera.org/specializations/deep-learning", title |-> "Coursera: Deep Learning Specialization (DeepLearning.AI)", platform |-> "Coursera"]>>],
     [cond |-> {{<<"m","a","c","h","i","n","e"," ","l","e","a","r","n","i","n","g">>, <<"e","n","g","i","n","e","e","r">>}, {<<"m","a","c","h","i","n","e"," ","l","e","a","r","n","i","n","g">>}},
      resources |-> <<
        [url |-> "https://www.coursera.org/learn/machine-learning", title |-> "Coursera: Machine Learning by Stanford Online", platform |-> "Coursera"], 
        [url |-> "https://www.udacity.com/course/machine-learning-engineer-nanodegree--nd009t", title |-> "Udacity: Machine Learning Engineer Nanodegree", platform |-> "Udacity"]>>],
     [cond |-> {{<<"d","a","t","a"," ","e","n","g","i","n","e","e","r">>}},
      resources |-> <<
        [url |-> "https://www.datacamp.com/tracks/data-engineer-with-python", title |-> "DataCamp: Data Engineer with Python Track", platform |-> "DataCamp"], 
        [url |-> "https://www.udemy.com/course/data-engineering/", title |-> "Udemy: The Complete Data Engineering Course", platform |-> "Udemy"]>>],
     [cond |-> {{<<"d","e","v","o","p","s">>, <<"e","n","g","i","n","e","e","r">>}},
      resources |-> <<
        [url |-> "https://www.udemy.com/course/aws-certified-devops-engineer-professional/", title |-> "Udemy: AWS Certified DevOps Engineer - Professional", platform |-> "Udemy"], 
        [url |-> "https://www.pluralsight.com/paths/devops-fundamentals", title |-> "Pluralsight: DevOps Fundamentals", platform |-> "Pluralsight"]>>],
     [cond |-> {{<<"c","y","b","e","r","s","e","c","u","r","i","t","y">>, <<"e","n","g","i","n","e","e","r">>}},
      resources |-> <<
        [url |-> "https://www.cybrary.it/course/cybersecurity-fundamentals/", title |-> "Cybrary: Cybersecurity Fundamentals", platform |-> "Cybrary"], 
        [url |-> "https://www.coursera.org/professional-certificates/ibm-cybersecurity-analyst", title |-> "Coursera: IBM Cybersecurity Analyst Professional Certificate", platform |-> "Coursera"]>>],
     [cond |-> {{<<"f","u","l","l"," ","s","t","a","c","k">>, <<"d","e","v","e","l","o","p","e","r">>}, {<<"w","e","b"," ","d","e","v","e","l","o","p","m","e","n","t">>}},
      resources |-> <<
        [url |-> "https://www.theodinproject.com/paths/full-stack-javascript", title |-> "The Odin Project: Full Stack JavaScript Path", platform |-> "The Odin Project"], 
        [url |-> "https://www.coursera.org/specializations/full-stack-react", title |-> "Coursera: Full-Stack Web Development with React Specialization (HKUST)", platform |-> "Coursera"]>>],
     [cond |-> {{<<"m","o","b","i","l","e">>, <<"d","e","v","e","l","o","p","e","r">>}, {<<"m","o","b","i","l","e"," ","d","e","v","e","l","o","p","m","e","n","t">>}},
      resources |-> <<
        [url |-> "https://www.udemy.com/course/the-complete-react-native-and-redux-course/", title |-> "Udemy: The Complete React Native + Hooks Course", platform |-> "Udemy"], 
        [url |-> "https://www.coursera.org/specializations/android-app-development", title |-> "Coursera: Android App Development Specialization (Vanderbilt University)", platform |-> "Coursera"]>>],
     [cond |-> {{<<"c","l","o","u","d">>, <<"a","r","c","h","i","t","e","c","t">>}, {<<"c","l","o","u","d"," ","c","o","m","p","u","t","i","n","g">>}},
      resources |-> <<
        [url |-> "https://aws.amazon.com/training/digital/aws-certified-solutions-architect-associate/", title |-> "AWS Skill Builder: AWS Certified Solutions Architect - Associate", platform |-> "AWS Skill Builder"], 
        [url |-> "https://www.pluralsight.com/paths/microsoft-azure-architect-design-az-304", title |-> "Pluralsight: Microsoft Azure Architect Design (AZ-304)", platform |-> "Pluralsight"]>>],
     [cond |-> {{<<"b","l","o","c","k","c","h","a","i","n">>, <<"d","e","v","e","l","o","p","e","r">>}, {<<"b","l","o","c","k","c","h","a","i","n">>}},
      resources |-> <<
        [url |-> "https://www.coursera.org/specializations/blockchain", title |-> "Coursera: Blockchain Specialization (University at Buffalo)", platform |-> "Coursera"], 
        [url |-> "https://www.dappuniversity.com/bootcamp", title |-> "Dapp University: Blockchain Developer Bootcamp", platform |-> "Dapp University"]>>],
     [cond |-> {{<<"g","a","m","e">>, <<"d","e","v","e","l","o","p","e","r">>}, {<<"g","a","m","e"," ","d","e","v","e","l","o","p","m","e","n","t">>}},
      resources |-> <<
        [url |-> "https://www.udemy.com/course/unitycourse/", title |-> "Udemy: Complete C# Unity Game Developer 2D", platform |-> "Udemy"], 
        [url |-> "https://www.coursera.org/specializations/game-development", title |-> "Coursera: Game Design and Development with Unity (Michigan State University)", platform |-> "Coursera"]>>],
     [cond |-> {{<<"e","m","b","e","d","d","e","d">>, <<"s","y","s","t","e","m","s">>, <<"e","n","g","i","n","e","e","r">>}, {<<"e","m","b","e","d","d","e","d"," ","s","y","s","t","e","m","s">>}},
      resources |-> <<
        [url |-> "https://www.edx.org/course/embedded-systems-essentials-with-arm", title |-> "edX: Embedded Systems Essentials with Arm", platform |-> "edX"], 
        [url |-> "https://www.udemy.com/course/mastering-microcontroller-with-embedded-driver-development/", title |-> "Udemy: Mastering Microcontroller and Embedded Driver Development", platform |-> "Udemy"]>>],
     [cond |-> {{<<"c","o","m","p","u","t","e","r"," ","v","i","s","i","o","n">>, <<"e","n","g","i","n","e","e","r">>}, {<<"c","o","m","p","u","t","e","r"," ","v","i","s","i","o","n">>}},
      resources |-> <<
        [url |-> "https://www.coursera.org/learn/computer-vision-basics", title |-> "Coursera: Computer Vision Basics (University at Buffalo)", platform |-> "Coursera"], 
        [url |-> "https://www.deeplearning.ai/courses/computer-vision-with-deep-learning/", title |-> "DeepLearning.AI: Computer Vision with Deep Learning", platform |-> "DeepLearning.AI"]>>],
     [cond |-> {{<<"n","l","p">>, <<"e","n","g","i","n","e","e","r">>}, {<<"n","a","t","u","r","a","l"," ","l","a","n","g","u","a","g","e"," ","p","r","o","c","e","s","s","i","n","g">>}},
      resources |-> <<
        [url |-> "https://www.coursera.org/specializations/natural-language-processing", title |-> "Coursera: Natural Language Processing Specialization (DeepLearning.AI)", platform |-> "Coursera"], 
        [url |-> "https://course.fast.ai/", title |-> "Fast.ai: Practical Deep Learning for NLP", platform |-> "Fast.ai"]>>],
     [cond |-> {{<<"r","o","b","o","t","i","c","s">>, <<"e","n","g","i","n","e","e","r">>}, {<<"r","o","b","o","t","i","c","s">>}},
      resources |-> <<
        [url |-> "https://www.edx.org/micromasters/upenn-robotics", title |-> "edX: Robotics MicroMasters (University of Pennsylvania)", platform |-> "edX"], 
        [url |-> "https://www.udemy.com/course/robotics-and-ros-learn-robot-operating-system/", title |-> "Udemy: Robotics and ROS - Learn Robot Operating System", platform |-> "Udemy"]>>],
     [cond |-> {{<<"q","u","a","n","t","u","m">>, <<"c","o","m","p","u","t","i","n","g">>, <<"e","n","g","i","n","e","e","r">>}, {<<"q","u","a","n","t","u","m"," ","c","o","m","p","u","t","i","n","g">>}},
      resources |-> <<
        [url |-> "https://qiskit.org/learn/", title |-> "Qiskit: Learn Quantum Computation Using Qiskit", platform |-> "Qiskit"], 
        [url |-> "https://www.edx.org/course/quantum-computing-fundamentals", title |-> "edX: Quantum Computing Fundamentals (MIT)", platform |-> "edX"]>>],
     [cond |-> {{<<"b","i","o","i","n","f","o","r","m","a","t","i","c","s">>, <<"e","n","g","i","n","e","e","r">>}, {<<"b","i","o","i","n","f","o","r","m","a","t","i","c","s">>}},
      resources |-> <<
        [url |-> "https://www.coursera.org/specializations/bioinformatics", title |-> "Coursera: Bioinformatics Specialization (UC San Diego)", platform |-> "Coursera"], 
        [url |-> "https://www.edx.org/course/introduction-to-computational-biology-and-bioinformatics", title |-> "edX: Introduction to Computational Biology and Bioinformatics", platform |-> "edX"]>>],
     [cond |-> {{<<"f","i","n","a","n","c","i","a","l"," ","t","e","c","h","n","o","l","o","g","y">>, <<"e","n","g","i","n","e","e","r">>}, {<<"f","i","n","t","e","c","h">>}},
      resources |-> <<
        [url |-> "https://www.coursera.org/learn/fintech-foundations", title |-> "Coursera: FinTech Foundations and Overview (HKUST)", platform |-> "Coursera"], 
        [url |-> "https://www.udemy.com/course/algorithmic-trading-quantitative-analysis-using-python/", title |-> "Udemy: Algorithmic Trading & Quantitative Analysis Using Python", platform |-> "Udemy"]>>],
     [cond |-> {{<<"s","p","a","c","e">>, <<"s","y","s","t","e","m","s">>, <<"e","n","g","i","n","e","e","r">>}, {<<"a","e","r","o","s","p","a","c","e">>}},
      resources |-> <<
        [url |-> "https://www.edx.org/course/introduction-to-aerospace-engineering", title |-> "edX: Introduction to Aerospace Engineering (MIT)", platform |-> "edX"], 
        [url |-> "https://www.coursera.org/specializations/spacecraft-dynamics-control", title |-> "Coursera: Spacecraft Dynamics and Control Specialization (University of Colorado Boulder)", platform |-> "Coursera"]>>],
     [cond |-> {{<<"m","l"," ","e","n","g","i","n","e","e","r">>}, {<<"m","a","c","h","i","n","e"," ","l","e","a","r","n","i","n","g"," ","e","n","g","i","n","e","e","r">>}},
      resources |-> <<
        [url |-> "https://www.coursera.org/specializations/machine-learning-engineering-production", title |-> "Coursera: Machine Learning Engineering for Production", platform |-> "Coursera"], 
        [url |-> "https://www.edx.org/course/mlops-fundamentals", title |-> "edX: MLOps Fundamentals", platform |-> "edX"]>>],
     [cond |-> {{<<"r","e","s","e","a","r","c","h"," ","s","c","i","e","n","t","i","s","t">>}, {<<"r","e","s","e","a","r","c","h">>}},
      resources |-> <<
        [url |-> "https://ocw.mit.edu/courses/", title |-> "MIT OpenCourseWare - Research Methods", platform |-> "MIT OCW"], 
        [url |-> "https://www.coursera.org/learn/research-methods", title |-> "Coursera: Research Design and Methods", platform |-> "Coursera"]>>],
     [cond |-> {{<<"r","e","s","e","a","r","c","h"," ","a","n","a","l","y","s","t">>}, {<<"r","e","s","e","a","r","c","h"," ","a","n","a","l","y","s","i","s">>}},
      resources |-> <<
        [url |-> "https://www.coursera.org/learn/data-analysis", title |-> "Coursera: Data Analysis and Statistical Inference", platform |-> "Coursera"], 
        [url |-> "https://www.edx.org/course/research-methods-and-statistics", title |-> "edX: Research Methods and Statistics", platform |-> "edX"]>>],
     [cond |-> {{<<"m","a","t","h","e","m","a","t","i","c","i","a","n">>}, {<<"m","a","t","h","e","m","a","t","i","c","s">>}},
      resources |-> <<
        [url |-> "https://ocw.mit.edu/courses/mathematics/", title |-> "MIT OpenCourseWare - Advanced Mathematics", platform |-> "MIT OCW"], 
        [url |-> "https://www.coursera.org/specializations/mathematics-machine-learning", title |-> "Coursera: Mathematics for Machine Learning", platform |-> "Coursera"]>>],
     [cond |-> {{<<"c","r","y","p","t","o","g","r","a","p","h","e","r">>}, {<<"c","r","y","p","t","o","g","r","a","p","h","y">>}},
      resources |-> <<
        [url |-> "https://www.coursera.org/specializations/cryptography", title |-> "Coursera: Cryptography Specialization", platform |-> "Coursera"], 
        [url |-> "https://www.edx.org/course/applied-cryptography", title |-> "edX: Applied Cryptography", platform |-> "edX"]>>],
     [cond |-> {{<<"s","y","s","t","e","m"," ","a","r","c","h","i","t","e","c","t">>}, {<<"s","y","s","t","e","m","s"," ","a","r","c","h","i","t","e","c","t">>}},
      resources |-> <<
        [url |-> "https://www.coursera.org/specializations/software-architecture", title |-> "Coursera: Software Architecture Specialization", platform |-> "Coursera"], 
        [url |-> "https://www.edx.org/course/system-design-and-architecture", title |-> "edX: System Design and Architecture", platform |-> "edX"]>>],
     [cond |-> {{<<"t","e","a","m"," ","l","e","a","d">>}, {<<"t","e","a","m"," ","l","e","a","d","e","r","s","h","i","p">>}},
      resources |-> <<
        [url |-> "https://www.coursera.org/specializations/leadership-management", title |-> "Coursera: Leadership and Management Specialization", platform |-> "Coursera"], 
        [url |-> "https://www.edx.org/course/leadership-in-engineering", title |-> "edX: Leadership in Engineering", platform |-> "edX"]>>],
     [cond |-> {{<<"i","n","n","o","v","a","t","i","o","n"," ","l","e","a","d">>}, {<<"i","n","n","o","v","a","t","i","o","n">>}},
      resources |-> <<
        [url |-> "https://www.coursera.org/specializations/innovation-management", title |-> "Coursera: Innovation Management Specialization", platform |-> "Coursera"], 
        [url |-> "https://www.edx.org/course/innovation-and-entrepreneurship", title |-> "edX: Innovation and Entrepreneurship", platform |-> "edX"]>>],
     [cond |-> {{<<"o","p","e","r","a","t","i","o","n","s"," ","r","e","s","e","a","r","c","h">>}, {<<"o","p","e","r","a","t","i","o","n","s">>}},
      resources |-> <<
        [url |-> "https://www.coursera.org/specializations/operations-management", title |-> "Coursera: Operations Management Specialization", platform |-> "Coursera"], 
        [url |-> "https://www.edx.org/course/introduction-to-operations-management", title |-> "edX: Introduction to Operations Management", platform |-> "edX"]>>],
     [cond |-> {{<<"q","u","a","n","t","i","t","a","t","i","v","e"," ","a","n","a","l","y","s","t">>}, {<<"q","u","a","n","t">>}},
      resources |-> <<
        [url |-> "https://www.coursera.org/specializations/financial-engineering", title |-> "Coursera: Financial Engineering and Risk Management", platform |-> "Coursera"], 
        [url |-> "https://www.edx.org/course/quantitative-methods-for-finance", title |-> "edX: Quantitative Methods for Finance", platform |-> "edX"]>>],
     [cond |-> {{<<"p","r","o","d","u","c","t"," ","m","a","n","a","g","e","r">>}, {<<"p","r","o","d","u","c","t"," ","m","a","n","a","g","e","m","e","n","t">>}},
      resources |-> <<
        [url |-> "https://www.coursera.org/specializations/product-management", title |-> "Coursera: Product Management Specialization", platform |-> "Coursera"], 
        [url |-> "https://www.edx.org/micromasters/product-management", title |-> "edX: Product Management MicroMasters", platform |-> "edX"]>>],
     [cond |-> {{<<"m","a","t","h">>}, {<<"m","a","t","h","e","m","a","t","i","c","s">>}},
      resources |-> <<
        [url |-> "https://ocw.mit.edu/courses/mathematics/", title |-> "MIT OpenCourseWare - Mathematics", platform |-> "MIT OCW"], 
        [url |-> "https://www.khanacademy.org/math", title |-> "Khan Academy - Mathematics", platform |-> "Khan Academy"], 
        [url |-> "https://www.youtube.com/c/3blue1brown", title |-> "3Blue1Brown - Mathematics", platform |-> "YouTube"]>>]
  >>

\* the two generic_resources of _get_career_specific_resources
GenericResources ==
  << [url |-> "https://www.khanacademy.org/", title |-> "Khan Academy - STEM Courses", platform |-> "Khan Academy"],
     [url |-> "https://ocw.mit.edu/", title |-> "MIT OpenCourseWare", platform |-> "MIT OCW"] >>

\* _get_career_specific_resources(career_name): the first matching branch of
\* the chain, then generic entries appended while fewer than 2 are present
CareerSpecificResources(career_name) ==
  LET career_lower == Lower(career_name)
      hits == {i \in 1..Len(CuratedTable) : MatchesDNF(career_lower, CuratedTable[i].cond)}
      first == CHOOSE i \in hits : \A j \in hits : i <= j
      resources == IF hits = {} THEN <<>> ELSE CuratedTable[first].resources
  IN IF Len(resources) < 2
     THEN resources \o SubSeq(GenericResources, 1, 2 - Len(resources))
     ELSE resources

(***************************** career names *******************************)
SoftwareEngineerName == <<"S","o","f","t","w","a","r","e"," ","E","n","g","i","n","e","e","r">>
DataScientistName == <<"D","a","t","a"," ","S","c","i","e","n","t","i","s","t">>
AIEngineerName == <<"A","I"," ","E","n","g","i","n","e","e","r">>
AIResearcherName == <<"A","I"," ","R","e","s","e","a","r","c","h","e","r">>
MechanicalEngineerName == <<"M","e","c","h","a","n","i","c","a","l"," ","E","n","g","i","n","e","e","r">>
BiologistName == <<"B","i","o","l","o","g","i","s","t">>
MathTeacherName == <<"M","a","t","h"," ","T","e","a","c","h","e","r">>

\* career names requested in the model
CareerNames ==
  {SoftwareEngineerName, DataScientistName, AIResearcherName,
   MechanicalEngineerName, BiologistName, MathTeacherName}

UserLevels == {"beginner", "intermediate", "advanced"}

(***************************** roadmap values ******************************)
\* a phase dict
NewPhase(name, topics, difficulty) ==
  [name |-> name, topics |-> topics, topicsType |-> "list",
   difficulty |-> difficulty,
   resources |-> <<>>, hasResources |-> FALSE,
   completed_topics |-> <<>>, completion_percentage |-> 0,
   hasCompletion |-> FALSE]

\* a milestone dict; a derived one is named "Complete: {topic}"
NewMilestone(name, criteria) == [name |-> name, topic |-> "", criteria |-> criteria]

\* a roadmap dict with well-typed fields
NewRoadmap(career, duration, phases, milestones) ==
  [isDict |-> TRUE, career |-> career, careerType |-> "str",
   estimated_duration |-> duration,
   phases |-> phases, phasesType |-> "list",
   milestones |-> milestones, milestonesType |-> "list",
   resources |-> <<>>, hasResources |-> FALSE, hasError |-> FALSE]

\* duration_map.get(user_level, default) of the templates
DurationLookup(table, user_level, default) ==
  IF user_level \in DOMAIN table THEN table[user_level] ELSE default

\* _get_software_engineer_roadmap
SoftwareEngineerRoadmap(user_level) ==
  NewRoadmap(SoftwareEngineerName,
    DurationLookup([beginner |-> "18-24 months", intermediate |-> "12-18 months", advanced |-> "6-12 months"],
                   user_level, "18-24 months"),
    << NewPhase("Programming Fundamentals",
                <<"Variables and Data Types", "Control Flow", "Functions", "Object-Oriented Programming", "Basic Algorithms">>,
                "beginner"),
       NewPhase("Data Structures & Algorithms",
                <<"Arrays and Lists", "Stacks and Queues", "Trees and Graphs", "Sorting Algorithms", "Hash Tables">>,
                "intermediate"),
       NewPhase("Web Development",
                <<"HTML/CSS/JavaScript", "Frontend Framework (React/Vue)", "Backend APIs", "Databases", "DevOps Basics">>,
                "intermediate"),
       NewPhase("System Design & Architecture",
                <<"Microservices", "Load Balancing", "Caching", "Database Design", "Cloud Platforms">>,
                "advanced") >>,
    << NewMilestone("Programming Proficient", 3),
       NewMilestone("Technical Interview Ready", 3) >>)

\* _get_data_scientist_roadmap
DataScientistRoadmap(user_level) ==
  NewRoadmap(DataScientistName,
    DurationLookup([beginner |-> "20-30 months", intermediate |-> "15-20 months", advanced |-> "8-12 months"],
                   user_level, "20-30 months"),
    << NewPhase("Mathematics & Statistics Foundation",
                <<"Statistics", "Probability", "Linear Algebra", "Calculus", "Hypothesis Testing">>,
                "beginner"),
       NewPhase("Programming & Data Manipulation",
                <<"Python Programming", "Pandas/NumPy", "Data Cleaning", "SQL", "Jupyter Notebooks">>,
                "intermediate"),
       NewPhase("Machine Learning Fundamentals",
                <<"Supervised Learning", "Unsupervised Learning", "Feature Engineering", "Model Evaluation">>,
                "intermediate"),
       NewPhase("Advanced ML & Deep Learning",
                <<"Deep Learning", "Neural Networks", "Computer Vision", "NLP", "Time Series">>,
                "advanced") >>,
    << NewMilestone("Data Analysis Proficient", 3) >>)

\* _get_ai_engineer_roadmap
AIEngineerRoadmap(user_level) ==
  NewRoadmap(AIEngineerName, "18-24 months",
    << NewPhase("AI Fundamentals",
                <<"Machine Learning Basics", "Neural Networks", "Python Programming">>,
                "beginner"),
       NewPhase("Deep Learning Mastery",
                <<"CNNs", "RNNs", "Transformers", "PyTorch/TensorFlow">>,
                "intermediate") >>,
    << >>)

\* the generic topics generate_basic_roadmap uses for a career without skills
PlaceholderTopics ==
  <<"Core Concepts & Theory", "Basic Tools & Technologies", "Fundamental Principles",
    "Industry Standards", "Essential Skills", "Practical Applications",
    "Real-world Projects", "Advanced Techniques", "Industry Best Practices",
    "Problem-solving Skills", "Specialized Knowledge", "Leadership & Communication">>

\* fault variant of GenericPhases: every phase gets its own slice of the
\* list and an empty slice is replaced by the first three entries
GenericPhasesSliceAndBackfill(skills) ==
  LET backfill(topics) == IF topics = <<>> THEN Take(skills, 3) ELSE topics
  IN << NewPhase("Foundation", backfill(Take(skills, 5)), "beginner"),
        NewPhase("Intermediate", backfill(Slice(skills, 5, 10)), "intermediate"),
        NewPhase("Advanced", backfill(Drop(skills, 10)), "advanced") >>

\* the phases list of the generic branch of generate_basic_roadmap, with the
\* backfill loop over phases whose topics are empty
GenericPhases(skills) ==
  LET n == Len(skills)
      foundation == IF n >= 5 THEN Take(skills, 5) ELSE skills
      intermediate == IF n >= 10 THEN Slice(skills, 5, 10)
                      ELSE IF n > 5 THEN Drop(skills, 5) ELSE Take(skills, 5)
      advanced == IF n > 10 THEN Drop(skills, 10)
                  ELSE IF n >= 10 THEN Slice(skills, 5, 10) ELSE Take(skills, 5)
      backfill(topics) == IF topics = <<>> THEN Take(skills, 3) ELSE topics
  IN << NewPhase("Foundation", backfill(foundation), "beginner"),
        NewPhase("Intermediate", backfill(intermediate), "intermediate"),
        NewPhase("Advanced", backfill(advanced), "advanced") >>

\* generate_basic_roadmap(career_name, career_data, user_level);
\* skills is career_data.get('skills', [])
BasicRoadmap(career_name, skills, user_level) ==
  LET lowered == Lower(career_name)
      has(kw) == Contains(lowered, kw)
  IN IF has(<<"s","o","f","t","w","a","r","e">>) \/ has(<<"e","n","g","i","n","e","e","r">>)
     THEN SoftwareEngineerRoadmap(user_level)
     ELSE IF has(<<"d","a","t","a">>) /\ has(<<"s","c","i","e","n","t","i","s","t">>)
     THEN DataScientistRoadmap(user_level)
     ELSE IF has(<<"a","i">>)
             \/ has(<<"a","r","t","i","f","i","c","i","a","l"," ","i","n","t","e","l","l","i","g","e","n","c","e">>)
     THEN AIEngineerRoadmap(user_level)
     ELSE NewRoadmap(career_name,
            DurationLookup([beginner |-> "2-3 years", intermediate |-> "1-2 years", advanced |-> "6-12 months"],
                           user_level, "1-2 years"),
            GenericPhases(IF skills = <<>> THEN PlaceholderTopics ELSE skills),
            << NewMilestone("Foundation Complete", 3),
               NewMilestone("Intermediate Complete", 3),
               NewMilestone("Career Ready", 4) >>)

(*************************** resource providers ****************************)
\* URLs a provider answers with: entry 3*q + k is result k of the fetch for query q
\* (q = 0 is the career name, q = i is skills[i-1]); distinct entries stand for
\* distinct videoId / slug / url values in the provider's JSON
YouTubeURLs ==
  <<"https://www.youtube.com/watch?v=v01", "https://www.youtube.com/watch?v=v02", "https://www.youtube.com/watch?v=v03", "https://www.youtube.com/watch?v=v04", "https://www.youtube.com/watch?v=v05", "https://www.youtube.com/watch?v=v06", "https://www.youtube.com/watch?v=v07", "https://www.youtube.com/watch?v=v08", "https://www.youtube.com/watch?v=v09", "https://www.youtube.com/watch?v=v10", "https://www.youtube.com/watch?v=v11", "https://www.youtube.com/watch?v=v12", "https://www.youtube.com/watch?v=v13", "https://www.youtube.com/watch?v=v14", "https://www.youtube.com/watch?v=v15", "https://www.youtube.com/watch?v=v16", "https://www.youtube.com/watch?v=v17", "https://www.youtube.com/watch?v=v18">>
CourseraURLs ==
  <<"https://www.coursera.org/learn/c01", "https://www.coursera.org/learn/c02", "https://www.coursera.org/learn/c03", "https://www.coursera.org/learn/c04", "https://www.coursera.org/learn/c05", "https://www.coursera.org/learn/c06", "https://www.coursera.org/learn/c07", "https://www.coursera.org/learn/c08", "https://www.coursera.org/learn/c09", "https://www.coursera.org/learn/c10", "https://www.coursera.org/learn/c11", "https://www.coursera.org/learn/c12", "https://www.coursera.org/learn/c13", "https://www.coursera.org/learn/c14", "https://www.coursera.org/learn/c15", "https://www.coursera.org/learn/c16", "https://www.coursera.org/learn/c17", "https://www.coursera.org/learn/c18">>
KhanURLs ==
  <<"https://www.khanacademy.org/t01", "https://www.khanacademy.org/t02", "https://www.khanacademy.org/t03">>
EdxURLs ==
  <<"https://www.edx.org/course/e01", "https://www.edx.org/course/e02", "https://www.edx.org/course/e03">>

Providers == {"youtube", "coursera", "khan_academy", "edx"}

ProviderURLs(provider) ==
  CASE provider = "youtube" -> YouTubeURLs
    [] provider = "coursera" -> CourseraURLs
    [] provider = "khan_academy" -> KhanURLs
    [] OTHER -> EdxURLs

\* what the remote platforms answer during one aggregation
\*   "error"   every request fails or times out
\*   "fresh"   every request returns max_results records not seen before
\*   "repeat"  every request of a provider returns the same records
\*   "collide" edX, whose records carry the url field of the answer as it
\*             is, returns the URLs of the career's curated entries, last
\*             one first; the other platforms answer as in "fresh"
\*   "no_url"  every request returns one record without a url and one with
ProviderBehaviours == {"error", "fresh", "repeat", "collide", "no_url"}

Reverse(xs) == [i \in 1..Len(xs) |-> xs[Len(xs) + 1 - i]]

\* the records built from the JSON a platform returned for one request
RemoteItems(provider, query, max_results, behaviour, curated) ==
  LET urls == ProviderURLs(provider)
      item(u) == [url |-> u, title |-> "search result", platform |-> provider]
  IN CASE behaviour = "fresh" ->
            [k \in 1..max_results |-> item(urls[3 * query + k])]
       [] behaviour = "repeat" ->
            [k \in 1..max_results |-> item(urls[k])]
       [] behaviour = "collide" /\ provider # "edx" ->
            [k \in 1..max_results |-> item(urls[3 * query + k])]
       [] behaviour = "collide" ->
            [k \in 1..(IF max_results < Len(curated) THEN max_results ELSE Len(curated))
               |-> item(Reverse(curated)[k].url)]
       [] behaviour = "no_url" ->
            << item(""), item(urls[3 * query + 1]) >>
       [] OTHER -> << >>

\* get_youtube_resources / get_coursera_resources / get_khan_academy_resources
\* / get_edx_resources: [] without an API key, [] when the request raises,
\* the records otherwise.  The per-instance cache only makes a repeated
\* request return an earlier answer, which the behaviours already allow.
GetProviderResources(provider, query, max_results, api_keys, behaviour, curated) ==
  IF provider \notin api_keys THEN << >>
  ELSE IF behaviour = "error" THEN << >>
  ELSE RemoteItems(provider, query, max_results, behaviour, curated)

\* the tasks list of enhance_roadmap_with_resources, in creation order;
\* query 0 is career_name, query i is skills[i-1]
FetchTasks(career_name, skills) ==
  LET careerTasks ==
        IF career_name # << >>
        THEN << [provider |-> "youtube", query |-> 0, max_results |-> 3],
                [provider |-> "coursera", query |-> 0, max_results |-> 3],
                [provider |-> "khan_academy", query |-> 0, max_results |-> 3],
                [provider |-> "edx", query |-> 0, max_results |-> 3] >>
        ELSE << >>
      nSkills == IF Len(skills) < 5 THEN Len(skills) ELSE 5
      skillTasks ==
        [j \in 1..(2 * nSkills) |->
           [provider |-> IF j % 2 = 1 THEN "youtube" ELSE "coursera",
            query |-> (j + 1) \div 2, max_results |-> 2]]
  IN careerTasks \o skillTasks

\* the loop over the gathered results: an exception is skipped, a list is
\* appended to all_resources
RECURSIVE MergeFrom(_, _, _)
MergeFrom(results, i, all) ==
  IF i > Len(results) THEN all
  ELSE MergeFrom(results, i + 1, IF results[i].exc THEN all ELSE all \o results[i].items)

\* fault variant of MergeResults: one exception among the results discards
\* the results of every task
MergeResultsAbortOnFailure(results) ==
  IF \E i \in 1..Len(results) : results[i].exc THEN << >>
  ELSE MergeFrom(results, 1, << >>)

MergeResults(results) == MergeFrom(results, 1, << >>)

\* total resources kept after de-duplication
MaxUniqueResources == 40

\* the de-duplication loop: a record without url is skipped, a record is kept
\* when its url is new and fewer than 40 are kept so far
RECURSIVE UniqueFrom(_, _, _)
UniqueFrom(all, i, kept) ==
  IF i > Len(all) THEN kept
  ELSE UniqueFrom(all, i + 1,
         IF all[i].url = "" THEN kept
         ELSE IF (\A j \in 1..Len(kept) : kept[j].url # all[i].url)
                 /\ Len(kept) < MaxUniqueResources
              THEN Append(kept, all[i])
              ELSE kept)

UniqueResources(all) == UniqueFrom(all, 1, << >>)

\* the two placeholder records built for a phase without curated entries
PhasePlaceholders(phase) ==
  << [url |-> "https://www.khanacademy.org/", title |-> "Learning Resource for phase", platform |-> "Khan Academy"],
     [url |-> "https://ocw.mit.edu/", title |-> "Advanced Course for phase", platform |-> "MIT OCW"] >>

\* the resources assigned to phase number i (counted from 0)
PhaseResources(i, phase, unique_resources, career_specific_resources) ==
  LET phase_resources == Slice(unique_resources, i * 5, (i + 1) * 5)
  IN IF Len(phase_resources) < 2
     THEN IF career_specific_resources # << >>
          THEN Take(career_specific_resources, 2)
          ELSE PhasePlaceholders(phase)
     ELSE phase_resources

(************************ _clean_roadmap_structure *************************)
\* the slices clean applies
CleanTopicLimit == 10
CleanPhaseResourceLimit == 5
CleanMilestoneLimit == 15
CleanCriteriaLimit == 5
CleanResourceLimit == 20

\* None[:n] raises TypeError inside the try block of _clean_roadmap_structure
CleanRaises(roadmap) ==
  \/ \E i \in 1..Len(roadmap.phases) : roadmap.phases[i].topicsType = "bad"
  \/ roadmap.milestonesType = "bad"

\* the dict the except clause of _clean_roadmap_structure returns
CleanFailedRoadmap(roadmap) ==
  [isDict |-> TRUE,
   career |-> IF roadmap.careerType = "absent"
              THEN <<"U","n","k","n","o","w","n"," ","C","a","r","e","e","r">>
              ELSE roadmap.career,
   careerType |-> "str",
   estimated_duration |-> "",
   phases |-> << >>, phasesType |-> "list",
   milestones |-> << >>, milestonesType |-> "list",
   resources |-> << >>, hasResources |-> FALSE, hasError |-> FALSE]

\* fault variant of CleanPhase: the name is not copied into clean_phase
CleanPhaseWithoutName(phase) ==
  [name |-> "",
   topics |-> Take(phase.topics, CleanTopicLimit), topicsType |-> "list",
   difficulty |-> phase.difficulty,
   resources |-> IF phase.hasResources THEN Take(phase.resources, CleanPhaseResourceLimit) ELSE << >>,
   hasResources |-> phase.hasResources,
   completed_topics |-> << >>, completion_percentage |-> 0, hasCompletion |-> FALSE]

CleanPhase(phase) ==
  [name |-> phase.name,
   topics |-> Take(phase.topics, CleanTopicLimit), topicsType |-> "list",
   difficulty |-> phase.difficulty,
   resources |-> IF phase.hasResources THEN Take(phase.resources, CleanPhaseResourceLimit) ELSE << >>,
   hasResources |-> phase.hasResources,
   completed_topics |-> << >>, completion_percentage |-> 0, hasCompletion |-> FALSE]

CleanMilestone(milestone) ==
  [milestone EXCEPT !.criteria = IF @ < CleanCriteriaLimit THEN @ ELSE CleanCriteriaLimit]

\* _clean_roadmap_structure(roadmap)
CleanRoadmapStructure(roadmap) ==
  IF CleanRaises(roadmap) THEN CleanFailedRoadmap(roadmap)
  ELSE [roadmap EXCEPT
          !.phases = [i \in 1..Len(@) |-> CleanPhase(@[i])],
          !.milestones = LET ms == Take(@, CleanMilestoneLimit)
                         IN [i \in 1..Len(ms) |-> CleanMilestone(ms[i])],
          !.resources = IF roadmap.hasResources THEN Take(@, CleanResourceLimit) ELSE << >>]

(********************* enhance_roadmap_with_resources **********************)
\* roadmap.get(...) on a value that is no dict and None.lower() on a career
\* that is no string raise before anything is assigned; the fallback block
\* of the except clause raises the same way and the roadmap comes back as is
EnhanceRaisesEarly(roadmap) ==
  \/ ~roadmap.isDict
  \/ roadmap.careerType = "bad"

\* roadmap.get('career', '')
RoadmapCareer(roadmap) ==
  IF roadmap.isDict /\ roadmap.careerType = "str" THEN roadmap.career ELSE << >>

\* the gathered results of the tasks, by task position
GatherResults(roadmap, skills, api_keys, behaviour) ==
  LET career_name == RoadmapCareer(roadmap)
      tasks == FetchTasks(career_name, skills)
      curated == CareerSpecificResources(career_name)
  IN [t \in 1..Len(tasks) |->
        [exc |-> FALSE,
         items |-> GetProviderResources(tasks[t].provider, tasks[t].query,
                                        tasks[t].max_results, api_keys, behaviour, curated)]]

\* all_resources before de-duplication: provider results, then curated
AllResources(roadmap, results) ==
  MergeResults(results) \o CareerSpecificResources(RoadmapCareer(roadmap))

\* enhance_roadmap_with_resources(roadmap, career_data) given the gathered
\* results
EnhanceRoadmapWithResources(roadmap, results) ==
  IF EnhanceRaisesEarly(roadmap) THEN roadmap
  ELSE
    LET career_specific_resources == CareerSpecificResources(RoadmapCareer(roadmap))
        deduped == UniqueResources(AllResources(roadmap, results))
        unique_resources == IF deduped = << >> THEN career_specific_resources ELSE deduped
    IN IF roadmap.phasesType = "bad"
       THEN \* iterating the phases raises after roadmap['resources'] was set;
            \* the fallback block stores the curated list and raises again
            [roadmap EXCEPT
               !.resources = IF career_specific_resources # << >>
                             THEN career_specific_resources ELSE unique_resources,
               !.hasResources = unique_resources # << >> \/ career_specific_resources # << >>]
       ELSE CleanRoadmapStructure(
              IF unique_resources = << >> THEN roadmap
              ELSE [roadmap EXCEPT
                      !.resources = unique_resources,
                      !.hasResources = TRUE,
                      !.phases = [i \in 1..Len(@) |->
                                    [@[i] EXCEPT
                                       !.resources = PhaseResources(i - 1, @[i], unique_resources,
                                                                    career_specific_resources),
                                       !.hasResources = TRUE]]])

(************************ _ensure_minimum_milestones ***********************)
MilestoneFloor == 10
MilestoneBuffer == 12
TopicsPerPhaseForMilestones == 5

\* iterating phases that are no list, or slicing topics that are no list,
\* raises inside the try block; the except clause returns the roadmap as is
EnsureMilestonesRaises(roadmap) ==
  \/ ~roadmap.isDict
  \/ /\ Len(roadmap.milestones) < MilestoneFloor
     /\ \/ roadmap.phasesType = "bad"
        \/ \E i \in 1..Len(roadmap.phases) : roadmap.phases[i].topicsType = "bad"

\* the milestone appended for one topic
DerivedMilestone(topic) == [name |-> "Complete", topic |-> topic, criteria |-> 3]

\* the nested loop of _ensure_minimum_milestones: phases in order, the first
\* 5 topics of each, both loops left once existing + derived reaches 12
RECURSIVE DeriveMilestones(_, _, _, _, _)
DeriveMilestones(phases, p, t, existing, derived) ==
  IF p > Len(phases) THEN derived
  ELSE LET topics == Take(phases[p].topics, TopicsPerPhaseForMilestones)
       IN IF t > Len(topics)
          THEN IF existing + Len(derived) >= MilestoneBuffer
               THEN derived
               ELSE DeriveMilestones(phases, p + 1, 1, existing, derived)
          ELSE LET next == Append(derived, DerivedMilestone(topics[t]))
               IN IF existing + Len(next) >= MilestoneBuffer
                  THEN next
                  ELSE DeriveMilestones(phases, p, t + 1, existing, next)

\* _ensure_minimum_milestones(roadmap)
EnsureMinimumMilestones(roadmap) ==
  IF EnsureMilestonesRaises(roadmap) THEN roadmap
  ELSE IF Len(roadmap.milestones) >= MilestoneFloor
       THEN [roadmap EXCEPT !.milestonesType = "list"]
       ELSE [roadmap EXCEPT
               !.milestones = @ \o DeriveMilestones(roadmap.phases, 1, 1, Len(@), << >>),
               !.milestonesType = "list"]

(***************************** completion tracking *************************)
\* Python "x in xs"
InSeq(x, xs) == \E i \in 1..Len(xs) : xs[i] = x

\* [topic for topic in topics if topic in completed_topics]
RECURSIVE FilterFrom(_, _, _, _)
FilterFrom(topics, completed, i, kept) ==
  IF i > Len(topics) THEN kept
  ELSE FilterFrom(topics, completed, i + 1,
         IF InSeq(topics[i], completed) THEN Append(kept, topics[i]) ELSE kept)

FilterCompleted(topics, completed) == FilterFrom(topics, completed, 1, << >>)

\* int((completed_count / total_topics) * 100) if total_topics > 0 else 0.
\* The float quotient times 100, truncated, equals the integer quotient of
\* 100 * completed_count by total_topics for every total_topics below 50
\* (the first difference is 29 of 50, which gives 57); phases of the model
\* have fewer topics than that.
CompletionPercentage(completed_count, total_topics) ==
  IF total_topics > 0 THEN (completed_count * 100) \div total_topics ELSE 0

\* the loop body of the completion block of generate_roadmap
TrackPhase(phase, completed) ==
  LET done == FilterCompleted(phase.topics, completed)
  IN [phase EXCEPT
        !.completed_topics = done,
        !.completion_percentage = CompletionPercentage(Len(done), Len(phase.topics)),
        !.hasCompletion = TRUE]

\* roadmap.get on a value that is no dict, iterating phases that are no
\* list and iterating topics that are no list raise in the completion block
CompletionRaises(roadmap) ==
  \/ ~roadmap.isDict
  \/ roadmap.phasesType = "bad"
  \/ \E i \in 1..Len(roadmap.phases) : roadmap.phases[i].topicsType = "bad"

\* the dict returned by the outer except clause of generate_roadmap
DegenerateRoadmap(career_name) ==
  [isDict |-> TRUE, career |-> career_name, careerType |-> "str",
   estimated_duration |-> "",
   phases |-> << >>, phasesType |-> "list",
   milestones |-> << >>, milestonesType |-> "list",
   resources |-> << >>, hasResources |-> FALSE, hasError |-> TRUE]

(************************** generative model replies ************************)
\* json.loads(ai_response) of replies that are valid JSON.  The reply is
\* returned by generate_ai_roadmap without any check of its shape.
ReplyPhase(name, n) ==
  NewPhase(name, [i \in 1..n |-> PlaceholderTopics[i]], "beginner")

ReplyMilestones(n, criteria) ==
  [i \in 1..n |-> NewMilestone("Reply milestone", criteria)]

\* a JSON value that is no object (a list, a string, a number)
NonObjectReply ==
  [isDict |-> FALSE, career |-> << >>, careerType |-> "absent",
   estimated_duration |-> "",
   phases |-> << >>, phasesType |-> "absent",
   milestones |-> << >>, milestonesType |-> "absent",
   resources |-> << >>, hasResources |-> FALSE, hasError |-> FALSE]

AIReplies(career_name) ==
  { \* the requested shape, 10 milestones
    NewRoadmap(career_name, "12 months",
               << ReplyPhase("Basics", 2), ReplyPhase("Practice", 2), ReplyPhase("Mastery", 2) >>,
               ReplyMilestones(10, 2)),
    \* the requested shape, few topics, one phase without topics
    NewRoadmap(career_name, "6 months",
               << ReplyPhase("Basics", 1), ReplyPhase("Practice", 0) >>,
               ReplyMilestones(1, 2)),
    \* the requested shape, more of everything than the clean step keeps
    NewRoadmap(career_name, "36 months",
               << ReplyPhase("One", 12), ReplyPhase("Two", 1), ReplyPhase("Three", 1),
                  ReplyPhase("Four", 1), ReplyPhase("Five", 1) >>,
               ReplyMilestones(16, 6)),
    \* the empty object {}
    [NonObjectReply EXCEPT !.isDict = TRUE],
    \* a list, a string or a number
    NonObjectReply,
    \* "career": null
    [NewRoadmap(<< >>, "12 months", << ReplyPhase("Basics", 12) >>, ReplyMilestones(1, 2))
       EXCEPT !.careerType = "bad"],
    \* "phases": null
    [NewRoadmap(career_name, "12 months", << >>, ReplyMilestones(1, 2))
       EXCEPT !.phasesType = "bad"],
    \* a phase with "topics": null
    NewRoadmap(career_name, "12 months",
               << ReplyPhase("Basics", 2), [ReplyPhase("Practice", 0) EXCEPT !.topicsType = "bad"] >>,
               ReplyMilestones(1, 2)),
    \* "career": null and a later phase with "topics": null
    [NewRoadmap(<< >>, "12 months",
                << ReplyPhase("Basics", 2), [ReplyPhase("Practice", 0) EXCEPT !.topicsType = "bad"] >>,
                ReplyMilestones(1, 2))
       EXCEPT !.careerType = "bad"] }

(******************************* the catalog ********************************)
\* skill names of a catalog entry (data/careers_stem.json)
SkillNames ==
  <<"skill01", "skill02", "skill03", "skill04", "skill05", "skill06", "skill07",
    "skill08", "skill09", "skill10", "skill11", "skill12", "skill13">>

\* numbers of skills of the entries in the model: none, fewer than 5,
\* between 5 and 10, exactly 10, more than 10
SkillCounts == {0, 2, 6, 10, MaxSkills}

\* completed_topics arguments: omitted (None), the empty list, a list naming
\* topics of the templates, of the placeholders and of a catalog entry
CompletedTopicsArgs ==
  { [given |-> FALSE, topics |-> << >>],
    [given |-> TRUE, topics |-> << >>],
    [given |-> TRUE,
     topics |-> <<"Control Flow", "Functions", "Statistics", "CNNs", "RNNs",
                  "Core Concepts & Theory", "skill01", "skill02", "skill07", "Welding">>] }

(****************************** state ***************************************)
VARIABLES
  pc,                \* position of the generate_roadmap call
  openai_client,     \* RoadmapService.openai_client is set (TRUE) or None
  api_keys,          \* providers whose API key is configured
  career_name,       \* arguments of generate_roadmap
  user_level,
  completed_topics,
  catalog,           \* outcome of load_careers_data for career_name
  skills,            \* career_data['skills']
  roadmap,           \* the local variable roadmap / the returned value
  all_resources,     \* all_resources of the last aggregation, before de-duplication
  ai_requests,       \* chat.completions.create calls issued by this run
  ai_outcome,        \* how the generative attempt of this run ended
  raised,            \* an exception left generate_roadmap
  fetches,           \* the fetch tasks of the aggregation in progress
  \* AIService
  memory,            \* AIService._conversation_memory
  preferences,       \* AIService._user_preferences
  appended,          \* every entry ever appended to a user's history, per user
  turn,              \* the chat turn in progress or just finished
  pair,              \* two chat turns of one user in progress at the same time
  model_mode,        \* how the generative model behaves in this session
  turns_left,        \* chat turns still to be started
  \* JobService
  job_search         \* the search_jobs call in progress or just finished

roadmapVars == <<pc, openai_client, api_keys, career_name, user_level, completed_topics,
                 catalog, skills, roadmap, all_resources, ai_requests, ai_outcome, raised,
                 fetches>>
chatVars == <<memory, preferences, appended, turn, pair, model_mode, turns_left>>
jobVars == <<job_search>>
vars == <<roadmapVars, chatVars, jobVars>>

(********************************* AIService ********************************)
\* self._max_memory_length
MaxMemoryLength == 15
\* history[-8:] in _prepare_messages
PromptHistoryLength == 8

\* the names _execute_function dispatches on
RegisteredFunctions ==
  {"get_career_recommendations", "generate_learning_path", "analyze_skill_gaps",
   "get_interview_prep", "get_skill_development_plan", "explore_career_path"}

\* names the model may ask for that _execute_function does not know
UnknownFunctions == {"get_salary_data", "Get_Career_Recommendations"}

\* user_id: None or the id of the signed-in user
NoUser == "None"
Users == {"user-1"}

\* message.content of a model reply: text, the empty string, or None
ModelText == "model text"
NoneContent == "<None>"

\* chat messages
CareerMessage == <<"W","h","a","t"," ","c","a","r","e","e","r"," ","f","i","t","s"," ","m","e","?">>
LearnMessage == <<"H","o","w"," ","d","o"," ","I"," ","L","E","A","R","N"," ","P","y","t","h","o","n","?">>
InterviewMessage == <<"I","n","t","e","r","v","i","e","w"," ","t","i","p","s"," ","p","l","e","a","s","e">>
OtherMessage == <<"H","e","l","l","o"," ","t","h","e","r","e">>
Messages == {CareerMessage, LearnMessage, InterviewMessage, OtherMessage}

\* any(word in message_lower for word in words)
AnyWordIn(message_lower, words) == \E w \in words : Contains(message_lower, w)

\* fault variant of GetFallbackResponse: no reply for a message without keyword
GetFallbackResponseNoDefault(message) ==
  LET message_lower == Lower(message)
  IN IF AnyWordIn(message_lower, {<<"c","a","r","e","e","r">>, <<"j","o","b">>,
                                  <<"p","r","o","f","e","s","s","i","o","n">>})
     THEN "I'd be happy to help you explore STEM careers! Could you tell me more about your interests and skills?"
     ELSE ""

\* _get_fallback_response(message)
GetFallbackResponse(message) ==
  LET message_lower == Lower(message)
  IN IF AnyWordIn(message_lower, {<<"c","a","r","e","e","r">>, <<"j","o","b">>,
                                  <<"p","r","o","f","e","s","s","i","o","n">>})
     THEN "I'd be happy to help you explore STEM careers! Could you tell me more about your interests and skills?"
     ELSE IF AnyWordIn(message_lower, {<<"l","e","a","r","n">>, <<"s","t","u","d","y">>,
                                       <<"c","o","u","r","s","e">>, <<"s","k","i","l","l">>})
     THEN "Learning new skills is exciting! What specific area would you like to focus on?"
     ELSE IF AnyWordIn(message_lower, {<<"i","n","t","e","r","v","i","e","w">>, <<"a","p","p","l","y">>,
                                       <<"r","e","s","u","m","e">>})
     THEN "Interview preparation is crucial! What type of position are you preparing for?"
     ELSE "I'm here to help with your STEM career journey! What would you like to know more about?"

\* the string the except clause of _generate_final_response returns
FinalResponseFallback ==
  "I've analyzed your request and can provide some insights. Please let me know if you need more specific information."

\* the context argument: None, or a dict with every field set
NoContext ==
  [given |-> FALSE, career_path |-> "", user_skills |-> << >>,
   experience_level |-> "", learning_style |-> ""]
SomeContext ==
  [given |-> TRUE, career_path |-> "Data Scientist", user_skills |-> <<"python">>,
   experience_level |-> "beginner", learning_style |-> "visual"]
Contexts == {NoContext, SomeContext}

\* a dict keyed by user id: m.get(user_id, default)
DictGet(m, key, default) == IF key \in DOMAIN m THEN m[key] ELSE default
\* m[key] = value
DictSet(m, key, value) ==
  [k \in (DOMAIN m) \cup {key} |-> IF k = key THEN value ELSE m[k]]

\* the empty preferences dict; "" and <<>> stand for a missing key
EmptyPreferences ==
  [career_interests |-> << >>, current_skills |-> << >>,
   experience_level |-> "", preferred_learning_style |-> ""]

\* _update_user_preferences(user_id, context)
UpdateUserPreferences(prefs_map, user_id, context) ==
  LET prefs == DictGet(prefs_map, user_id, EmptyPreferences)
      updated ==
        [career_interests |->
           IF context.career_path # "" /\ ~InSeq(context.career_path, prefs.career_interests)
           THEN Append(prefs.career_interests, context.career_path)
           ELSE prefs.career_interests,
         current_skills |->
           IF context.user_skills # << >> THEN context.user_skills ELSE prefs.current_skills,
         experience_level |->
           IF context.experience_level # "" THEN context.experience_level ELSE prefs.experience_level,
         preferred_learning_style |->
           IF context.learning_style # "" THEN context.learning_style
           ELSE prefs.preferred_learning_style]
  IN DictSet(prefs_map, user_id, updated)

\* the two entries _update_conversation_memory appends
MemoryEntries(user_message, ai_response, timestamp, context) ==
  << [type |-> "user", content |-> user_message, reply |-> "",
      timestamp |-> timestamp, context |-> context.given],
     [type |-> "assistant", content |-> << >>, reply |-> ai_response,
      timestamp |-> timestamp, context |-> context.given] >>

\* fault variant of UpdateConversationMemory: the oldest entries are kept
UpdateConversationMemoryKeepOldest(memory_map, user_id, user_message, ai_response, timestamp, context) ==
  LET extended == DictGet(memory_map, user_id, << >>)
                    \o MemoryEntries(user_message, ai_response, timestamp, context)
  IN DictSet(memory_map, user_id, Take(extended, MaxMemoryLength))

\* _update_conversation_memory(user_id, user_message, ai_response, context)
UpdateConversationMemory(memory_map, user_id, user_message, ai_response, timestamp, context) ==
  LET extended == DictGet(memory_map, user_id, << >>)
                    \o MemoryEntries(user_message, ai_response, timestamp, context)
  IN DictSet(memory_map, user_id,
             IF Len(extended) > MaxMemoryLength
             THEN LastN(extended, MaxMemoryLength)
             ELSE extended)

\* fault variant of ExecuteFunction: a name that is not registered is skipped
\* without an error
ExecuteFunctionSkipUnknown(function_name, tool_outcome) ==
  [function_name |-> function_name,
   error |-> IF function_name \in RegisteredFunctions /\ tool_outcome # "ok" THEN "Failed" ELSE "",
   unknown |-> "",
   model_called |-> function_name \in RegisteredFunctions /\ tool_outcome # "bad_args",
   model_raised |-> function_name \in RegisteredFunctions /\ tool_outcome = "call_raises",
   entry_error |-> FALSE]

\* _execute_function(function_name, args, ...): what the tool returns and
\* whether it issued its model call.  tool_outcome is "ok" when the tool's
\* model call returns, "call_raises" when it raises, "bad_args" when the
\* arguments make the tool raise before its call
ExecuteFunction(function_name, tool_outcome) ==
  IF function_name \in RegisteredFunctions
  THEN [function_name |-> function_name,
        error |-> IF tool_outcome = "ok" THEN "" ELSE "Failed",
        unknown |-> "",
        model_called |-> tool_outcome # "bad_args",
        model_raised |-> tool_outcome = "call_raises",
        entry_error |-> FALSE]
  ELSE \* {"error": f"Unknown function: {function_name}"}
       [function_name |-> function_name,
        error |-> "Unknown function",
        unknown |-> function_name,
        model_called |-> FALSE,
        model_raised |-> FALSE,
        entry_error |-> FALSE]

\* the line of context_summary that _generate_final_response writes for one
\* entry of function_results: the failure text when the entry itself has an
\* "error" key, else the "summary" of the tool's result dict, or "Analysis
\* complete" when that dict has no "summary" key
SummaryText == "<summary of the tool result>"
SummaryLine(result) ==
  IF result.entry_error THEN "Unable to complete analysis"
  ELSE IF result.error = "" THEN SummaryText
  ELSE "Analysis complete"

\* context_summary: one line per entry of function_results
ContextSummary(function_results) ==
  [i \in 1..Len(function_results) |-> SummaryLine(function_results[i])]

\* the chat turn before chat_with_ai is called
IdleTurn ==
  [pc |-> "idle", user_id |-> NoUser, message |-> << >>, context |-> NoContext,
   timestamp |-> 0, prompt_history |-> << >>,
   function_calls |-> << >>, function_results |-> << >>, summary |-> << >>,
   final_response |-> "", final_step |-> FALSE,
   model_calls |-> 0, raised_calls |-> 0,
   response |-> "", has_error |-> FALSE, propagated |-> FALSE]

\* the two turns of one user that run at the same time
TurnSlots == {"a", "b"}
NoPair == [s \in TurnSlots |-> IdleTurn]

\* state of the AIService variables while the roadmap service is examined
ChatIdle ==
  /\ memory = << >>
  /\ preferences = << >>
  /\ appended = << >>
  /\ turn = IdleTurn
  /\ pair = NoPair
  /\ model_mode = "off"
  /\ turns_left = 0

(********************************* JobService *******************************)
ProductManagerName == <<"P","r","o","d","u","c","t"," ","M","a","n","a","g","e","r">>
DevOpsEngineerName == <<"D","e","v","O","p","s"," ","E","n","g","i","n","e","e","r">>
CybersecurityAnalystName ==
  <<"C","y","b","e","r","s","e","c","u","r","i","t","y"," ","A","n","a","l","y","s","t">>

\* the keys of self.fallback_jobs, in insertion order
FallbackCategories ==
  << SoftwareEngineerName, DataScientistName, AIEngineerName,
     ProductManagerName, DevOpsEngineerName, CybersecurityAnalystName >>

\* number of entries of self.fallback_jobs[category]
FallbackJobCount(category) ==
  CASE category = SoftwareEngineerName -> 8
    [] category = DataScientistName -> 5
    [] category = AIEngineerName -> 4
    [] category = ProductManagerName -> 3
    [] category = DevOpsEngineerName -> 3
    [] category = CybersecurityAnalystName -> 2

\* self.fallback_jobs[category]; a job is named by its list and its position
FallbackJobs(category) ==
  [i \in 1..FallbackJobCount(category) |-> [source |-> category, n |-> i]]

\* career_mappings of _get_fallback_jobs, in insertion order
CareerMappings ==
  << [keyword |-> <<"s","o","f","t","w","a","r","e">>, careers |-> <<SoftwareEngineerName>>],
     [keyword |-> <<"d","a","t","a">>, careers |-> <<DataScientistName>>],
     [keyword |-> <<"a","i">>, careers |-> <<AIEngineerName>>],
     [keyword |-> <<"m","l">>, careers |-> <<AIEngineerName>>],
     [keyword |-> <<"m","a","c","h","i","n","e"," ","l","e","a","r","n","i","n","g">>,
      careers |-> <<AIEngineerName>>],
     [keyword |-> <<"a","r","t","i","f","i","c","i","a","l"," ","i","n","t","e","l","l","i","g","e","n","c","e">>,
      careers |-> <<AIEngineerName>>],
     [keyword |-> <<"p","r","o","d","u","c","t">>, careers |-> <<ProductManagerName>>],
     [keyword |-> <<"d","e","v","o","p","s">>, careers |-> <<DevOpsEngineerName>>],
     [keyword |-> <<"s","e","c","u","r","i","t","y">>, careers |-> <<CybersecurityAnalystName>>],
     [keyword |-> <<"c","y","b","e","r">>, careers |-> <<CybersecurityAnalystName>>],
     [keyword |-> <<"e","n","g","i","n","e","e","r">>,
      careers |-> <<SoftwareEngineerName, AIEngineerName, DevOpsEngineerName>>],
     [keyword |-> <<"d","e","v","e","l","o","p","e","r">>, careers |-> <<SoftwareEngineerName>>],
     [keyword |-> <<"s","c","i","e","n","t","i","s","t">>, careers |-> <<DataScientistName>>],
     [keyword |-> <<"m","a","n","a","g","e","r">>, careers |-> <<ProductManagerName>>] >>

\* the loop over career_mappings: matching_careers.extend(careers) for every
\* keyword found in career_lower
RECURSIVE KeywordMatches(_, _, _)
KeywordMatches(career_lower, k, matching) ==
  IF k > Len(CareerMappings) THEN matching
  ELSE KeywordMatches(career_lower, k + 1,
                      IF Contains(career_lower, CareerMappings[k].keyword)
                      THEN matching \o CareerMappings[k].careers
                      ELSE matching)

\* the loop over the keys of fallback_jobs: a key that contains the career
\* or is contained in it is appended unless it is already listed
RECURSIVE DirectMatches(_, _, _)
DirectMatches(career_lower, k, matching) ==
  IF k > Len(FallbackCategories) THEN matching
  ELSE LET key == FallbackCategories[k]
       IN DirectMatches(career_lower, k + 1,
                        IF /\ \/ Contains(Lower(key), career_lower)
                              \/ Contains(career_lower, Lower(key))
                           /\ ~InSeq(key, matching)
                        THEN Append(matching, key)
                        ELSE matching)

\* matching_careers of _get_fallback_jobs
MatchingCareers(career) ==
  LET career_lower == Lower(career)
      matching == DirectMatches(career_lower, 1, KeywordMatches(career_lower, 1, << >>))
  IN IF matching = << >> THEN FallbackCategories ELSE matching

\* all_jobs: the lists of the matching careers, one after the other
RECURSIVE CollectJobs(_, _, _)
CollectJobs(matching, k, all_jobs) ==
  IF k > Len(matching) THEN all_jobs
  ELSE CollectJobs(matching, k + 1, all_jobs \o FallbackJobs(matching[k]))

\* the 20 of max(limit, 20)
FallbackFloor == 20

\* limited_jobs
LimitedJobs(all_jobs, limit) ==
  IF limit < Len(all_jobs)
  THEN Take(all_jobs, IF limit > FallbackFloor THEN limit ELSE FallbackFloor)
  ELSE Take(all_jobs, limit)

\* _get_fallback_jobs(career, limit)["jobs"]
GetFallbackJobs(career, limit) ==
  LimitedJobs(CollectJobs(MatchingCareers(career), 1, << >>), limit)

\* response.json() of the live API: no object, an object whose "data" is no
\* list or holds an entry that is no job object, or an object with a list of
\* jobs
LinkedInData ==
  { [shape |-> "not_dict", count |-> 0], [shape |-> "bad_entry", count |-> 3] }
    \cup { [shape |-> "jobs", count |-> n] : n \in {0, 3, 30} }

\* _process_linkedin_response(data, career, limit): the jobs of the returned
\* dict; the dict of the except clause has no "jobs" key
ProcessLinkedinResponse(data, limit) ==
  IF data.shape # "jobs"
  THEN [hasJobs |-> FALSE, jobs |-> << >>]
  ELSE [hasJobs |-> TRUE,
        jobs |-> Take([i \in 1..data.count |-> [source |-> <<"L","i","n","k","e","d","I","n">>, n |-> i]],
                      limit)]

\* arguments of search_jobs
JobCareers ==
  { SoftwareEngineerName, DataScientistName, AIEngineerName, ProductManagerName,
    CybersecurityAnalystName, BiologistName, <<"d","a","t","a">>, << >> }
JobLimits == {1, 5, 10, 20, 21, 25, 30}

\* no search_jobs call yet
NoJobSearch ==
  [pc |-> "idle", key_configured |-> FALSE, career |-> << >>, limit |-> 20,
   jobs |-> << >>, path |-> "none"]

\* state of the JobService variable while another service is examined
JobsIdle == job_search = NoJobSearch

(************************* RoadmapService.generate_roadmap ******************)
NoRoadmap == [NonObjectReply EXCEPT !.phasesType = "none"]

\* asyncio.gather has nothing to wait for: no task was created
NoFetches ==
  [stage |-> "idle", pattern |-> "none", tasks |-> << >>, slots |-> << >>, order |-> << >>]

\* RoadmapService.__init__: the OpenAI client and the provider API keys come
\* from the settings
Init ==
  /\ pc = "idle"
  /\ openai_client \in BOOLEAN
  /\ api_keys \in {{}, {"youtube"}, Providers}
  /\ career_name = << >>
  /\ user_level = "beginner"
  /\ completed_topics = [given |-> FALSE, topics |-> << >>]
  /\ catalog = "unread"
  /\ skills = << >>
  /\ roadmap = NoRoadmap
  /\ all_resources = << >>
  /\ ai_requests = 0
  /\ ai_outcome = "none"
  /\ raised = FALSE
  /\ fetches = NoFetches
  /\ ChatIdle
  /\ JobsIdle

\* generate_roadmap(career_name, user_level, completed_topics) is called
Request ==
  /\ pc = "idle"
  /\ \E c \in CareerNames, l \in UserLevels, done \in CompletedTopicsArgs :
       /\ career_name' = c
       /\ user_level' = l
       /\ completed_topics' = done
  /\ pc' = "load"
  /\ UNCHANGED <<openai_client, api_keys, catalog, skills, roadmap, all_resources,
                 ai_requests, ai_outcome, raised, fetches, chatVars, jobVars>>

\* load_careers_data and the construction of career_data: an unreadable file
\* gives {} and a career that is not a key gets the basic data without skills
LoadCareers ==
  /\ pc = "load"
  /\ \/ /\ catalog' \in {"unreadable", "missing"}
        /\ skills' = << >>
     \/ /\ catalog' = "found"
        /\ \E n \in SkillCounts : skills' = SubSeq(SkillNames, 1, n)
  /\ pc' = "generative"
  /\ UNCHANGED <<openai_client, api_keys, career_name, user_level, completed_topics,
                 roadmap, all_resources, ai_requests, ai_outcome, raised, fetches, chatVars, jobVars>>

\* generate_ai_roadmap up to the parse of the reply: without a client the
\* call raises AttributeError before any request; a request may raise, return
\* text that is no JSON, or return JSON, which is returned as parsed
TryGenerative ==
  /\ pc = "generative"
  /\ \/ /\ ~openai_client
        /\ ai_outcome' = "no_client"
        /\ pc' = "fallback"
        /\ UNCHANGED <<roadmap, ai_requests>>
     \/ /\ openai_client
        /\ ai_requests' = ai_requests + 1
        /\ \/ /\ ai_outcome' \in {"raised", "not_json"}
              /\ pc' = "fallback"
              /\ UNCHANGED roadmap
           \/ /\ \E reply \in AIReplies(career_name) : roadmap' = reply
              /\ ai_outcome' = "parsed"
              /\ pc' = "enrich"
  /\ UNCHANGED <<openai_client, api_keys, career_name, user_level, completed_topics,
                 catalog, skills, all_resources, raised, fetches, chatVars, jobVars>>

\* fault variant of FallbackTemplate: the generative model is asked again
\* after a failed request
FallbackTemplateRetrying ==
  /\ pc = "fallback"
  /\ roadmap' = BasicRoadmap(career_name, skills, user_level)
  /\ pc' = IF openai_client THEN "generative" ELSE "enrich"
  /\ UNCHANGED <<openai_client, api_keys, career_name, user_level, completed_topics,
                 catalog, skills, all_resources, ai_requests, ai_outcome, raised, fetches, chatVars, jobVars>>

\* the except clauses of generate_ai_roadmap: generate_basic_roadmap
FallbackTemplate ==
  /\ pc = "fallback"
  /\ roadmap' = BasicRoadmap(career_name, skills, user_level)
  /\ pc' = "enrich"
  /\ UNCHANGED <<openai_client, api_keys, career_name, user_level, completed_topics,
                 catalog, skills, all_resources, ai_requests, ai_outcome, raised, fetches, chatVars, jobVars>>

\* roadmap = await self.enhance_roadmap_with_resources(roadmap, career_data)
Enrich ==
  /\ pc = "enrich"
  /\ \E behaviour \in ProviderBehaviours :
       LET results == GatherResults(roadmap, skills, api_keys, behaviour)
       IN /\ roadmap' = EnhanceRoadmapWithResources(roadmap, results)
          /\ all_resources' = IF EnhanceRaisesEarly(roadmap) THEN << >>
                              ELSE AllResources(roadmap, results)
  /\ pc' = "milestones"
  /\ UNCHANGED <<openai_client, api_keys, career_name, user_level, completed_topics,
                 catalog, skills, ai_requests, ai_outcome, raised, fetches, chatVars, jobVars>>

\* roadmap = self._ensure_minimum_milestones(roadmap)
EnforceMilestoneFloor ==
  /\ pc = "milestones"
  /\ roadmap' = EnsureMinimumMilestones(roadmap)
  /\ pc' = "completion"
  /\ UNCHANGED <<openai_client, api_keys, career_name, user_level, completed_topics,
                 catalog, skills, all_resources, ai_requests, ai_outcome, raised, fetches, chatVars, jobVars>>

\* "if completed_topics:" is false for None and for the empty list
CompletedTopicsTruthy(arg) == arg.given /\ arg.topics # << >>

\* the completion block and the return; an exception raised in the block is
\* caught by the outer except clause, which returns the degenerate roadmap
ApplyCompletionTracking ==
  /\ pc = "completion"
  /\ roadmap' =
       IF ~CompletedTopicsTruthy(completed_topics) THEN roadmap
       ELSE IF CompletionRaises(roadmap) THEN DegenerateRoadmap(career_name)
       ELSE [roadmap EXCEPT
               !.phases = [i \in 1..Len(@) |-> TrackPhase(@[i], completed_topics.topics)]]
  /\ pc' = "done"
  /\ UNCHANGED <<openai_client, api_keys, career_name, user_level, completed_topics,
                 catalog, skills, all_resources, ai_requests, ai_outcome, raised, fetches, chatVars, jobVars>>

Next ==
  \/ Request
  \/ LoadCareers
  \/ TryGenerative
  \/ FallbackTemplate
  \/ Enrich
  \/ EnforceMilestoneFloor
  \/ ApplyCompletionTracking

Spec == Init /\ [][Next]_vars

(**************************** AIService.chat_with_ai ************************)
\* state of the RoadmapService variables while the assistant is examined
RoadmapIdle ==
  /\ pc = "off"
  /\ openai_client = FALSE
  /\ api_keys = {}
  /\ career_name = << >>
  /\ user_level = "beginner"
  /\ completed_topics = [given |-> FALSE, topics |-> << >>]
  /\ catalog = "unread"
  /\ skills = << >>
  /\ roadmap = NoRoadmap
  /\ all_resources = << >>
  /\ ai_requests = 0
  /\ ai_outcome = "none"
  /\ raised = FALSE
  /\ fetches = NoFetches

\* AIService.__init__: empty memory and preferences.  A session is either
\* one turn with every input and every model behaviour ("full"), or MaxTurns
\* turns of one user whose model call either raises or answers ("flaky")
InitChat ==
  /\ memory = << >>
  /\ preferences = << >>
  /\ appended = << >>
  /\ turn = IdleTurn
  /\ pair = NoPair
  /\ \/ model_mode = "full" /\ turns_left = 1
     \/ model_mode = "flaky" /\ turns_left = MaxTurns
  /\ RoadmapIdle
  /\ JobsIdle

\* fault variant of ChatStart: the user's message is stored before the model
\* is called
ChatStartStoringMessage ==
  /\ turn.pc \in {"idle", "done"}
  /\ turns_left > 0
  /\ \E user_id \in (IF model_mode = "full" THEN Users \cup {NoUser} ELSE Users),
        message \in (IF model_mode = "full" THEN Messages ELSE {OtherMessage}),
        context \in (IF model_mode = "full" THEN Contexts ELSE {SomeContext}) :
       LET history == IF user_id # NoUser THEN DictGet(memory, user_id, << >>) ELSE << >>
       IN /\ preferences' = IF context.given /\ user_id # NoUser
                            THEN UpdateUserPreferences(preferences, user_id, context)
                            ELSE preferences
          /\ turn' = [IdleTurn EXCEPT
                        !.pc = "initial_call",
                        !.user_id = user_id,
                        !.message = message,
                        !.context = context,
                        !.timestamp = turn.timestamp + 1,
                        !.prompt_history = LastN(history, PromptHistoryLength)]
  /\ turns_left' = turns_left - 1
  /\ memory' = IF turn'.user_id # NoUser
               THEN DictSet(memory, turn'.user_id,
                            Append(DictGet(memory, turn'.user_id, << >>),
                                   MemoryEntries(turn'.message, "", turn'.timestamp, turn'.context)[1]))
               ELSE memory
  /\ UNCHANGED <<appended, model_mode, pair, roadmapVars, jobVars>>

\* chat_with_ai up to the first model call: history lookup, preference
\* update, _prepare_messages
ChatStart ==
  /\ turn.pc \in {"idle", "done"}
  /\ turns_left > 0
  /\ \E user_id \in (IF model_mode = "full" THEN Users \cup {NoUser} ELSE Users),
        message \in (IF model_mode = "full" THEN Messages ELSE {OtherMessage}),
        context \in (IF model_mode = "full" THEN Contexts ELSE {SomeContext}) :
       LET history == IF user_id # NoUser THEN DictGet(memory, user_id, << >>) ELSE << >>
       IN /\ preferences' = IF context.given /\ user_id # NoUser
                            THEN UpdateUserPreferences(preferences, user_id, context)
                            ELSE preferences
          /\ turn' = [IdleTurn EXCEPT
                        !.pc = "initial_call",
                        !.user_id = user_id,
                        !.message = message,
                        !.context = context,
                        !.timestamp = turn.timestamp + 1,
                        !.prompt_history = LastN(history, PromptHistoryLength)]
  /\ turns_left' = turns_left - 1
  /\ UNCHANGED <<memory, appended, model_mode, pair, roadmapVars, jobVars>>

\* the dict chat_with_ai returns from its except clause
FailTurn(t) ==
  [t EXCEPT !.pc = "done",
            !.response = GetFallbackResponse(t.message),
            !.has_error = TRUE]

\* _call_openai_api_with_functions: the call raises (re-raised to
\* chat_with_ai), returns content, or returns a function call whose
\* arguments are parsed with json.loads
InitialCall ==
  /\ turn.pc = "initial_call"
  /\ \/ \* the call raises
        turn' = FailTurn([turn EXCEPT !.model_calls = @ + 1, !.raised_calls = @ + 1])
     \/ \* the call returns content
        \E content \in (IF model_mode = "full" THEN {ModelText, "", NoneContent} ELSE {ModelText}) :
          turn' = [turn EXCEPT !.model_calls = @ + 1,
                               !.final_response = content,
                               !.pc = "update_memory"]
     \/ \* the call returns a function call
        /\ model_mode = "full"
        /\ \/ \E name \in RegisteredFunctions \cup UnknownFunctions :
                turn' = [turn EXCEPT !.model_calls = @ + 1,
                                     !.function_calls = << name >>,
                                     !.pc = "process_functions"]
           \/ \* json.loads(message.function_call.arguments) raises
              turn' = FailTurn([turn EXCEPT !.model_calls = @ + 1])
  /\ UNCHANGED <<memory, preferences, appended, model_mode, turns_left, pair, roadmapVars, jobVars>>

\* fault variant of ProcessFunctionCalls: a tool whose model call raised
\* issues the call a second time
ProcessFunctionCallsRetrying ==
  /\ turn.pc = "process_functions"
  /\ \E tool_outcome \in {"ok", "call_raises", "bad_args"} :
       LET name == turn.function_calls[1]
           result == ExecuteFunction(name, tool_outcome)
       IN /\ (name \notin RegisteredFunctions) => tool_outcome = "ok"
          /\ turn' = [turn EXCEPT
                        !.function_results = << result >>,
                        !.model_calls = @ + (IF result.model_raised THEN 2
                                              ELSE IF result.model_called THEN 1 ELSE 0),
                        !.raised_calls = @ + (IF result.model_raised THEN 1 ELSE 0),
                        !.pc = "final_response"]
  /\ UNCHANGED <<memory, preferences, appended, model_mode, turns_left, pair, roadmapVars, jobVars>>

\* _process_function_calls: every function call is executed; a registered
\* tool issues its own model call
ProcessFunctionCalls ==
  /\ turn.pc = "process_functions"
  /\ \E tool_outcome \in {"ok", "call_raises", "bad_args"} :
       LET name == turn.function_calls[1]
           result == ExecuteFunction(name, tool_outcome)
       IN /\ (name \notin RegisteredFunctions) => tool_outcome = "ok"
          /\ turn' = [turn EXCEPT
                        !.function_results = << result >>,
                        !.model_calls = @ + (IF result.model_called THEN 1 ELSE 0),
                        !.raised_calls = @ + (IF result.model_raised THEN 1 ELSE 0),
                        !.pc = "final_response"]
  /\ UNCHANGED <<memory, preferences, appended, model_mode, turns_left, pair, roadmapVars, jobVars>>

\* fault variant of GenerateFinalResponse: the exception of the model call
\* is re-raised to chat_with_ai
GenerateFinalResponseReraising ==
  /\ turn.pc = "final_response"
  /\ \/ \E content \in {ModelText, "", NoneContent} :
          turn' = [turn EXCEPT !.model_calls = @ + 1,
                               !.summary = ContextSummary(turn.function_results),
                               !.final_response = content,
                               !.final_step = TRUE,
                               !.pc = "update_memory"]
     \/ turn' = FailTurn([turn EXCEPT !.model_calls = @ + 1,
                                      !.raised_calls = @ + 1,
                                      !.summary = ContextSummary(turn.function_results),
                                      !.final_step = TRUE])
  /\ UNCHANGED <<memory, preferences, appended, model_mode, turns_left, pair, roadmapVars, jobVars>>

\* _generate_final_response: context_summary with one line per function
\* result, then one model call; its except clause returns the fixed fallback
\* string
GenerateFinalResponse ==
  /\ turn.pc = "final_response"
  /\ \/ \E content \in {ModelText, "", NoneContent} :
          turn' = [turn EXCEPT !.model_calls = @ + 1,
                               !.summary = ContextSummary(turn.function_results),
                               !.final_response = content,
                               !.final_step = TRUE,
                               !.pc = "update_memory"]
     \/ turn' = [turn EXCEPT !.model_calls = @ + 1,
                             !.raised_calls = @ + 1,
                             !.summary = ContextSummary(turn.function_results),
                             !.final_response = FinalResponseFallback,
                             !.final_step = TRUE,
                             !.pc = "update_memory"]
  /\ UNCHANGED <<memory, preferences, appended, model_mode, turns_left, pair, roadmapVars, jobVars>>

\* the rest of chat_with_ai: _update_conversation_memory for a signed-in
\* user, then the returned dict
UpdateMemoryAndReturn ==
  /\ turn.pc = "update_memory"
  /\ IF turn.user_id # NoUser
     THEN /\ memory' = UpdateConversationMemory(memory, turn.user_id, turn.message,
                                                turn.final_response, turn.timestamp, turn.context)
          /\ appended' = DictSet(appended, turn.user_id,
                                 DictGet(appended, turn.user_id, << >>)
                                   \o MemoryEntries(turn.message, turn.final_response,
                                                    turn.timestamp, turn.context))
     ELSE UNCHANGED <<memory, appended>>
  /\ turn' = [turn EXCEPT !.pc = "done", !.response = turn.final_response]
  /\ UNCHANGED <<preferences, model_mode, turns_left, pair, roadmapVars, jobVars>>

NextChat ==
  \/ ChatStart
  \/ InitialCall
  \/ ProcessFunctionCalls
  \/ GenerateFinalResponse
  \/ UpdateMemoryAndReturn

SpecChat == InitChat /\ [][NextChat]_vars

(************** the concurrent fetches of one aggregation ******************)
\* number of catalog skills of the careers whose fetches are followed one by one
GatherSkillCounts == {0, 1}

\* which fetches of an aggregation go wrong
\*   "none"   every request is answered
\*   "one"    the request of the second task raises or times out
\*   "two"    the first task ends with an exception that asyncio.gather
\*            hands back as a result, the request of the last task raises
\*   "all"    every request raises or times out
FailurePatterns == {"none", "one", "two", "all"}

\* how the task at position t of n ends
FetchOutcome(pattern, t, n) ==
  CASE pattern = "none" -> "ok"
    [] pattern = "one" -> IF t = 2 THEN "failed" ELSE "ok"
    [] pattern = "two" -> IF t = 1 THEN "exception" ELSE IF t = n THEN "failed" ELSE "ok"
    [] OTHER -> "failed"

\* the result slot of a task that has not finished
PendingSlot == [done |-> FALSE, exc |-> FALSE, items |-> << >>]

\* the result of one task: the provider method catches the exception of a
\* failed request and returns []; an exception that ends the task is the
\* task's result under return_exceptions=True
FetchResult(task, outcome, keys, curated) ==
  [done |-> TRUE,
   exc |-> outcome = "exception",
   items |-> IF outcome = "exception" THEN << >>
             ELSE GetProviderResources(task.provider, task.query, task.max_results, keys,
                                       IF outcome = "ok" THEN "fresh" ELSE "error", curated)]

\* fault variant of GatheredResults: the results in the order of completion
GatheredResultsAsCompleted(slots, order) ==
  [k \in 1..Len(order) |-> [exc |-> slots[order[k]].exc, items |-> slots[order[k]].items]]

\* results = await asyncio.gather(*tasks, return_exceptions=True): the
\* results in the order of the tasks, whatever the order of completion
GatheredResults(slots, order) ==
  [t \in 1..Len(slots) |-> [exc |-> slots[t].exc, items |-> slots[t].items]]

\* state of the AIService and of the stages before the aggregation; the
\* roadmap to enrich is the fallback roadmap of a career with n skills
InitGather ==
  /\ pc = "enrich"
  /\ openai_client = FALSE
  /\ api_keys = Providers
  /\ career_name \in {BiologistName, MathTeacherName}
  /\ user_level = "beginner"
  /\ completed_topics = [given |-> FALSE, topics |-> << >>]
  /\ catalog = "found"
  /\ \E n \in GatherSkillCounts : skills = SubSeq(SkillNames, 1, n)
  /\ roadmap = BasicRoadmap(career_name, skills, user_level)
  /\ all_resources = << >>
  /\ ai_requests = 0
  /\ ai_outcome = "no_client"
  /\ raised = FALSE
  /\ fetches = NoFetches
  /\ ChatIdle
  /\ JobsIdle

\* the tasks are created, in the order of the tasks list
CreateTasks ==
  /\ pc = "enrich"
  /\ fetches.stage = "idle"
  /\ \E pattern \in FailurePatterns :
       LET tasks == FetchTasks(RoadmapCareer(roadmap), skills)
       IN fetches' = [stage |-> "running", pattern |-> pattern, tasks |-> tasks,
                      slots |-> [t \in 1..Len(tasks) |-> PendingSlot],
                      order |-> << >>]
  /\ UNCHANGED <<pc, openai_client, api_keys, career_name, user_level, completed_topics,
                 catalog, skills, roadmap, all_resources, ai_requests, ai_outcome, raised,
                 chatVars, jobVars>>

\* one of the unfinished tasks finishes
CompleteFetch ==
  /\ fetches.stage = "running"
  /\ \E t \in 1..Len(fetches.tasks) :
       /\ ~fetches.slots[t].done
       /\ fetches' =
            [fetches EXCEPT
               !.slots[t] = FetchResult(fetches.tasks[t],
                                        FetchOutcome(fetches.pattern, t, Len(fetches.tasks)),
                                        api_keys,
                                        CareerSpecificResources(RoadmapCareer(roadmap))),
               !.order = Append(@, t)]
  /\ UNCHANGED <<pc, openai_client, api_keys, career_name, user_level, completed_topics,
                 catalog, skills, roadmap, all_resources, ai_requests, ai_outcome, raised,
                 chatVars, jobVars>>

\* gather returns once every task has finished; the rest of
\* enhance_roadmap_with_resources runs on its results
MergeGathered ==
  /\ fetches.stage = "running"
  /\ \A t \in 1..Len(fetches.tasks) : fetches.slots[t].done
  /\ LET results == GatheredResults(fetches.slots, fetches.order)
     IN /\ roadmap' = EnhanceRoadmapWithResources(roadmap, results)
        /\ all_resources' = AllResources(roadmap, results)
  /\ fetches' = [fetches EXCEPT !.stage = "merged"]
  /\ pc' = "milestones"
  /\ UNCHANGED <<openai_client, api_keys, career_name, user_level, completed_topics,
                 catalog, skills, ai_requests, ai_outcome, raised, chatVars, jobVars>>

NextGather ==
  \/ CreateTasks
  \/ CompleteFetch
  \/ MergeGathered

SpecGather == InitGather /\ [][NextGather]_vars

(************* two chat_with_ai calls of one user at the same time **********)
\* numbers of complete turns stored before the two calls start: none, and
\* enough for the second and for the first append to exceed the cap
PriorTurnCounts == {0, 6, 7}

\* the history after n earlier turns of the user
RECURSIVE PriorHistory(_)
PriorHistory(n) ==
  IF n = 0 THEN << >>
  ELSE PriorHistory(n - 1) \o MemoryEntries(OtherMessage, ModelText, n, NoContext)

\* the arguments of the two calls
PairMessage(s) == IF s = "a" THEN CareerMessage ELSE LearnMessage
PairContext(s) == IF s = "a" THEN SomeContext ELSE NoContext
PairUser == "user-1"
PairFunctions == {"get_career_recommendations", "get_salary_data"}

\* AIService with the history of the earlier turns, no call started
InitPair ==
  /\ \E n \in PriorTurnCounts :
       /\ memory = (IF n = 0 THEN << >> ELSE DictSet(<< >>, PairUser, PriorHistory(n)))
       /\ appended = memory
  /\ preferences = << >>
  /\ turn = IdleTurn
  /\ pair = NoPair
  /\ model_mode = "pair"
  /\ turns_left = 0
  /\ RoadmapIdle
  /\ JobsIdle

\* chat_with_ai up to the first model call, for the call in slot s
PairStart(s) ==
  /\ pair[s].pc = "idle"
  /\ preferences' = IF PairContext(s).given
                    THEN UpdateUserPreferences(preferences, PairUser, PairContext(s))
                    ELSE preferences
  /\ pair' = [pair EXCEPT ![s] =
                [IdleTurn EXCEPT
                   !.pc = "initial_call",
                   !.user_id = PairUser,
                   !.message = PairMessage(s),
                   !.context = PairContext(s),
                   !.prompt_history = LastN(DictGet(memory, PairUser, << >>), PromptHistoryLength)]]
  /\ UNCHANGED <<memory, appended, turn, model_mode, turns_left, roadmapVars, jobVars>>

\* the first model call of slot s returns: it raised, it returned content,
\* or it returned a function call
PairInitialCall(s) ==
  /\ pair[s].pc = "initial_call"
  /\ \/ pair' = [pair EXCEPT ![s] =
                   FailTurn([pair[s] EXCEPT !.model_calls = @ + 1, !.raised_calls = @ + 1])]
     \/ pair' = [pair EXCEPT ![s] =
                   [pair[s] EXCEPT !.model_calls = @ + 1,
                                   !.final_response = ModelText,
                                   !.pc = "update_memory"]]
     \/ \E name \in PairFunctions :
          pair' = [pair EXCEPT ![s] =
                     [pair[s] EXCEPT !.model_calls = @ + 1,
                                     !.function_calls = << name >>,
                                     !.pc = "process_functions"]]
  /\ UNCHANGED <<memory, preferences, appended, turn, model_mode, turns_left, roadmapVars, jobVars>>

\* _process_function_calls of slot s
PairProcessFunctionCalls(s) ==
  /\ pair[s].pc = "process_functions"
  /\ \E tool_outcome \in {"ok", "call_raises", "bad_args"} :
       LET name == pair[s].function_calls[1]
           result == ExecuteFunction(name, tool_outcome)
       IN /\ (name \notin RegisteredFunctions) => tool_outcome = "ok"
          /\ pair' = [pair EXCEPT ![s] =
                        [pair[s] EXCEPT
                           !.function_results = << result >>,
                           !.model_calls = @ + (IF result.model_called THEN 1 ELSE 0),
                           !.raised_calls = @ + (IF result.model_raised THEN 1 ELSE 0),
                           !.pc = "final_response"]]
  /\ UNCHANGED <<memory, preferences, appended, turn, model_mode, turns_left, roadmapVars, jobVars>>

\* _generate_final_response of slot s
PairGenerateFinalResponse(s) ==
  /\ pair[s].pc = "final_response"
  /\ \E content \in {ModelText, FinalResponseFallback} :
       pair' = [pair EXCEPT ![s] =
                  [pair[s] EXCEPT
                     !.model_calls = @ + 1,
                     !.raised_calls = @ + (IF content = FinalResponseFallback THEN 1 ELSE 0),
                     !.summary = ContextSummary(pair[s].function_results),
                     !.final_response = content,
                     !.final_step = TRUE,
                     !.pc = "update_memory"]]
  /\ UNCHANGED <<memory, preferences, appended, turn, model_mode, turns_left, roadmapVars, jobVars>>

\* datetime.now() when _update_conversation_memory runs: appends are numbered
\* in the order they happen
AppendTime == Len(DictGet(appended, PairUser, << >>)) \div 2 + 1

\* fault variant of PairUpdateMemory: the history the call read when it
\* started is extended and written back
PairUpdateMemoryFromSnapshot(s) ==
  /\ pair[s].pc = "update_memory"
  /\ memory' = UpdateConversationMemory(DictSet(memory, PairUser, pair[s].prompt_history),
                                        PairUser, pair[s].message, pair[s].final_response,
                                        AppendTime, pair[s].context)
  /\ appended' = DictSet(appended, PairUser,
                         DictGet(appended, PairUser, << >>)
                           \o MemoryEntries(pair[s].message, pair[s].final_response,
                                            AppendTime, pair[s].context))
  /\ pair' = [pair EXCEPT ![s] = [pair[s] EXCEPT !.pc = "done", !.timestamp = AppendTime,
                                                 !.response = pair[s].final_response]]
  /\ UNCHANGED <<preferences, turn, model_mode, turns_left, roadmapVars, jobVars>>

\* the rest of chat_with_ai for slot s: _update_conversation_memory extends
\* and trims the stored list without a suspension point, then the call returns
PairUpdateMemory(s) ==
  /\ pair[s].pc = "update_memory"
  /\ memory' = UpdateConversationMemory(memory, PairUser, pair[s].message, pair[s].final_response,
                                        AppendTime, pair[s].context)
  /\ appended' = DictSet(appended, PairUser,
                         DictGet(appended, PairUser, << >>)
                           \o MemoryEntries(pair[s].message, pair[s].final_response,
                                            AppendTime, pair[s].context))
  /\ pair' = [pair EXCEPT ![s] = [pair[s] EXCEPT !.pc = "done", !.timestamp = AppendTime,
                                                 !.response = pair[s].final_response]]
  /\ UNCHANGED <<preferences, turn, model_mode, turns_left, roadmapVars, jobVars>>

NextPair ==
  \E s \in TurnSlots :
    \/ PairStart(s)
    \/ PairInitialCall(s)
    \/ PairProcessFunctionCalls(s)
    \/ PairGenerateFinalResponse(s)
    \/ PairUpdateMemory(s)

SpecPair == InitPair /\ [][NextPair]_vars

(**************************** JobService.search_jobs ************************)
InitJobs ==
  /\ job_search = [NoJobSearch EXCEPT !.pc = "ready"]
  /\ pc = "off"
  /\ openai_client = FALSE
  /\ api_keys = {}
  /\ career_name = << >>
  /\ user_level = "beginner"
  /\ completed_topics = [given |-> FALSE, topics |-> << >>]
  /\ catalog = "unread"
  /\ skills = << >>
  /\ roadmap = NoRoadmap
  /\ all_resources = << >>
  /\ ai_requests = 0
  /\ ai_outcome = "none"
  /\ raised = FALSE
  /\ fetches = NoFetches
  /\ ChatIdle

\* search_jobs(career, location, limit) up to the request to the live API,
\* which is sent only when RAPIDAPI_KEY is configured
SearchJobs ==
  /\ job_search.pc \in {"ready", "done"}
  /\ \E career \in JobCareers, limit \in JobLimits, key_configured \in BOOLEAN :
       job_search' = [pc |-> IF key_configured THEN "live" ELSE "fallback",
                      key_configured |-> key_configured,
                      career |-> career, limit |-> limit,
                      jobs |-> << >>, path |-> "none"]
  /\ UNCHANGED <<roadmapVars, chatVars>>

\* the request returns: it raised, the status is not 200, or the body is
\* processed; a processed result without jobs leads to the fallback data
LiveResponse ==
  /\ job_search.pc = "live"
  /\ \/ job_search' = [job_search EXCEPT !.pc = "fallback"]
     \/ \E data \in LinkedInData :
          LET processed == ProcessLinkedinResponse(data, job_search.limit)
          IN job_search' =
               IF processed.hasJobs /\ Len(processed.jobs) > 0
               THEN [job_search EXCEPT !.pc = "done", !.jobs = processed.jobs, !.path = "live"]
               ELSE [job_search EXCEPT !.pc = "fallback"]
  /\ UNCHANGED <<roadmapVars, chatVars>>

\* return await self._get_fallback_jobs(career, limit)
FallbackJobsReturned ==
  /\ job_search.pc = "fallback"
  /\ job_search' = [job_search EXCEPT
                      !.pc = "done",
                      !.jobs = GetFallbackJobs(job_search.career, job_search.limit),
                      !.path = "fallback"]
  /\ UNCHANGED <<roadmapVars, chatVars>>

NextJobs ==
  \/ SearchJobs
  \/ LiveResponse
  \/ FallbackJobsReturned

SpecJobs == InitJobs /\ [][NextJobs]_vars

(******************************** properties ********************************)
PhaseNames(r) == [i \in 1..Len(r.phases) |-> r.phases[i].name]

URLsOf(resources) == [i \in 1..Len(resources) |-> resources[i].url]

NoRepeatedURL(resources) ==
  \A i, j \in 1..Len(resources) : i # j => resources[i].url # resources[j].url

\* the records of all whose url occurs at no earlier position, in order
FirstOccurrences(all) ==
  SelectSeq([i \in 1..Len(all) |-> [pos |-> i, rec |-> all[i]]],
            LAMBDA e : e.rec.url # "" /\ \A j \in 1..(e.pos - 1) : all[j].url # e.rec.url)

\* xs can be obtained from ys by deleting entries
RECURSIVE IsSubsequence(_, _)
IsSubsequence(xs, ys) ==
  IF xs = << >> THEN TRUE
  ELSE IF ys = << >> THEN FALSE
  ELSE IF Head(xs) = Head(ys) THEN IsSubsequence(Tail(xs), Tail(ys))
  ELSE IsSubsequence(xs, Tail(ys))

FirstOccurrenceRecords(all) ==
  LET f == FirstOccurrences(all) IN [i \in 1..Len(f) |-> f[i].rec]

Returned == pc = "done"
Aggregated == pc = "milestones"

\* C1: the roadmap generate_roadmap returns has at least 10 milestones, for
\* every career, level and outcome of the model and the providers
C1_MilestoneFloor ==
  Returned => Len(roadmap.milestones) >= MilestoneFloor

\* C2: generate_roadmap never lets an exception out and returns a roadmap
\* object; a result with an error field is the degenerate roadmap (requested
\* career name, no phases, no milestones)
C2_AlwaysReturnsRoadmap ==
  Returned =>
    /\ ~raised
    /\ roadmap.isDict
    /\ roadmap.hasError => roadmap = DegenerateRoadmap(career_name)

\* C3: after resource aggregation the roadmap has at least 2 resources
C3_MinimumResources ==
  Aggregated => roadmap.hasResources /\ Len(roadmap.resources) >= 2

\* C4: the resource list left by the aggregation repeats no URL and keeps
\* the first occurrences of the concatenated input in their order
C4_DedupFirstSeenOrder ==
  (Aggregated /\ roadmap.hasResources) =>
    /\ NoRepeatedURL(roadmap.resources)
    /\ IsSubsequence(roadmap.resources, FirstOccurrenceRecords(all_resources))

\* C5: every phase of a returned roadmap has at least one topic
C5_PhasesHaveTopics ==
  Returned => \A i \in 1..Len(roadmap.phases) : Len(roadmap.phases[i].topics) >= 1

GenerativeUnavailable == ai_outcome \in {"no_client", "raised", "not_json"}

\* C6: with the generative provider disabled or failing, the roadmap
\* returned for "Software Engineer" has exactly the four template phases in
\* order and no error field, for every user level
C6_SoftwareEngineerTemplate ==
  (Returned /\ career_name = SoftwareEngineerName /\ GenerativeUnavailable) =>
    /\ PhaseNames(roadmap) = <<"Programming Fundamentals", "Data Structures & Algorithms",
                               "Web Development", "System Design & Architecture">>
    /\ ~roadmap.hasError

C6_Witness ==
  /\ Returned /\ career_name = SoftwareEngineerName
  /\ ai_outcome = "raised" /\ user_level = "advanced"
  /\ CompletedTopicsTruthy(completed_topics)
  /\ Len(roadmap.phases) = 4

\* the completion fields the claim describes for one phase
CompletionAsClaimed(phase, completed) ==
  LET total == Len(phase.topics)
      count == Len(phase.completed_topics)
      pct == phase.completion_percentage
  IN /\ phase.hasCompletion
     /\ phase.completed_topics = SelectSeq(phase.topics, LAMBDA t : InSeq(t, completed))
     /\ pct \in 0..100
     /\ total = 0 => pct = 0
     /\ total > 0 => (pct * total <= 100 * count /\ 100 * count < (pct + 1) * total)

\* C7 as stated: whenever completed_topics is supplied, every phase carries
\* the intersection list and the floored percentage
C7_CompletionWheneverSupplied ==
  (Returned /\ completed_topics.given) =>
    \A i \in 1..Len(roadmap.phases) :
      CompletionAsClaimed(roadmap.phases[i], completed_topics.topics)

\* C8: the stored history of a user has at most 15 entries and is the last
\* 15 entries, in order, of everything ever appended for that user
C8_HistoryIsLastFifteen ==
  \A u \in DOMAIN memory :
    /\ Len(memory[u]) <= 15
    /\ u \in DOMAIN appended
    /\ memory[u] = LastN(appended[u], 15)

C8_Witness ==
  /\ turn.pc = "done"
  /\ \E u \in DOMAIN memory :
       /\ Len(appended[u]) >= 17
       /\ Len(memory[u]) = 15
       /\ memory[u][1].type = "assistant"

TurnDone == turn.pc = "done"
EveryModelCallRaised == turn.model_calls >= 1 /\ turn.raised_calls = turn.model_calls

\* C9: a chat turn in which every model call raised ends without an
\* exception and with a non-empty reply
C9_ChatNeverThrows ==
  (TurnDone /\ EveryModelCallRaised) =>
    /\ ~turn.propagated
    /\ turn.response \notin {"", NoneContent}

C9_Witness ==
  /\ TurnDone /\ EveryModelCallRaised
  /\ turn.message = OtherMessage
  /\ turn.has_error

UnknownToolDispatched ==
  /\ turn.function_results # << >>
  /\ turn.function_calls[1] \notin RegisteredFunctions

\* C10: the result of a tool name that is not registered is the error
\* "Unknown function: <name>", obtained without a model call and without an
\* exception, and the turn goes on to the final-response step and completes
C10_UnknownToolHandled ==
  UnknownToolDispatched =>
    /\ turn.function_results[1].error = "Unknown function"
    /\ turn.function_results[1].unknown = turn.function_calls[1]
    /\ ~turn.function_results[1].model_called
    /\ turn.pc = "final_response" => turn.model_calls = 1
    /\ turn.pc \in {"final_response", "update_memory", "done"}
    /\ TurnDone => (turn.final_step /\ ~turn.has_error /\ ~turn.propagated)

C10_Witness ==
  /\ TurnDone
  /\ UnknownToolDispatched
  /\ turn.function_calls[1] = "get_salary_data"
  /\ turn.final_step

Merged == fetches.stage = "merged"

\* position of a provider within the tasks created for one query
ProviderIndex(provider) ==
  CASE provider = "youtube" -> 1
    [] provider = "coursera" -> 2
    [] provider = "khan_academy" -> 3
    [] OTHER -> 4

\* the tasks are ordered by query index, then by provider index
OrderedByQueryThenProvider(tasks) ==
  \A s, t \in 1..Len(tasks) :
    s < t => \/ tasks[s].query < tasks[t].query
             \/ /\ tasks[s].query = tasks[t].query
                /\ ProviderIndex(tasks[s].provider) < ProviderIndex(tasks[t].provider)

\* the lists the finished tasks returned, joined from position t on
RECURSIVE JoinSlots(_, _)
JoinSlots(slots, t) ==
  IF t > Len(slots) THEN << >>
  ELSE (IF slots[t].exc THEN << >> ELSE slots[t].items) \o JoinSlots(slots, t + 1)

\* C11: the provider results are merged in the order of the tasks (query
\* index, then provider index), whatever the order in which the fetches
\* completed
C11_MergeOrderByPosition ==
  Merged =>
    /\ OrderedByQueryThenProvider(fetches.tasks)
    /\ all_resources = JoinSlots(fetches.slots, 1) \o CareerSpecificResources(career_name)

C11_Witness ==
  /\ Merged
  /\ Len(fetches.tasks) = 6
  /\ fetches.pattern = "none"
  /\ fetches.order = <<6, 3, 1, 5, 2, 4>>
  /\ all_resources[1].url = YouTubeURLs[1]
  /\ all_resources[13].url = YouTubeURLs[4]

\* what the platform answered to the task at position t, nothing when the
\* fetch went wrong
RECURSIVE AnsweredFrom(_, _, _, _)
AnsweredFrom(tasks, pattern, curated, t) ==
  IF t > Len(tasks) THEN << >>
  ELSE (IF FetchOutcome(pattern, t, Len(tasks)) = "ok"
        THEN RemoteItems(tasks[t].provider, tasks[t].query, tasks[t].max_results, "fresh", curated)
        ELSE << >>)
       \o AnsweredFrom(tasks, pattern, curated, t + 1)

\* C12: a fetch that raises or times out contributes nothing, the answers
\* of the other fetches are merged unchanged, and the aggregation ends
\* without an exception and with its resource list
C12_FailedFetchIsEmpty ==
  Merged =>
    LET curated == CareerSpecificResources(career_name)
    IN /\ all_resources = AnsweredFrom(fetches.tasks, fetches.pattern, curated, 1) \o curated
       /\ ~raised
       /\ pc = "milestones"
       /\ roadmap.hasResources
       /\ roadmap.resources = Take(all_resources, CleanResourceLimit)

C12_Witness ==
  /\ Merged
  /\ fetches.pattern = "two"
  /\ Len(fetches.tasks) = 6
  /\ fetches.slots[1].exc
  /\ fetches.slots[6].items = << >>
  /\ Len(all_resources) = 3 + 3 + 3 + 2 + 2
  /\ all_resources[1].url = CourseraURLs[1]

\* C13: a roadmap generated while the careers catalog could not be read
\* carries an error for the caller
C13_CatalogErrorSurfaced ==
  (Returned /\ catalog = "unreadable") => (raised \/ roadmap.hasError)

SoftwareEngineerPhaseNames ==
  <<"Programming Fundamentals", "Data Structures & Algorithms",
    "Web Development", "System Design & Architecture">>

ContainsBothWords(name) ==
  /\ Contains(Lower(name), <<"s","o","f","t","w","a","r","e">>)
  /\ Contains(Lower(name), <<"e","n","g","i","n","e","e","r">>)

\* C14: the fallback roadmap is the Software Engineer template exactly when
\* the career name contains both "software" and "engineer"
C14_SoftwareEngineerMatch ==
  (pc = "enrich" /\ GenerativeUnavailable) =>
    ((roadmap.isDict /\ PhaseNames(roadmap) = SoftwareEngineerPhaseNames)
       <=> ContainsBothWords(career_name))

\* a parsed reply that is an object with the roadmap fields
RoadmapShaped(r) ==
  /\ r.isDict
  /\ r.careerType = "str"
  /\ r.phasesType = "list"
  /\ r.milestonesType = "list"
  /\ \A i \in 1..Len(r.phases) : r.phases[i].topicsType = "list"

\* C15: a reply of the generative model is carried into the later stages
\* only when it has the Roadmap shape; otherwise the roadmap of the run is
\* the template roadmap
C15_MisshapenReplyFallsBack ==
  (pc = "enrich" /\ ai_outcome = "parsed") => RoadmapShaped(roadmap)

\* the steps from one stage of generate_roadmap to the next
StageOrder ==
  { <<"idle", "load">>, <<"load", "generative">>,
    <<"generative", "fallback">>, <<"generative", "enrich">>,
    <<"fallback", "enrich">>, <<"enrich", "milestones">>,
    <<"milestones", "completion">>, <<"completion", "done">> }

\* C16: every step of a run goes from a stage to a later one in the fixed
\* order (the template fallback only after a failed generative attempt), and
\* the generative model is requested at most once, in the generative stage
C16_StagesInOrder ==
  [][ /\ <<pc, pc'>> \in StageOrder
      /\ ai_requests' \in {ai_requests, ai_requests + 1}
      /\ ai_requests' <= 1
      /\ ai_requests' # ai_requests => pc = "generative"
      /\ pc' = "fallback" => ai_outcome' \in {"no_client", "raised", "not_json"}
      /\ pc = "fallback" => ai_outcome' = ai_outcome ]_vars

C16_Witness ==
  /\ Returned
  /\ ai_outcome = "not_json"
  /\ ai_requests = 1
  /\ roadmap.isDict
  /\ PhaseNames(roadmap) = <<"Foundation", "Intermediate", "Advanced">>

\* generate_basic_roadmap reaches its generic branch for this name
MatchesNoTemplate(name) ==
  LET lowered == Lower(name)
  IN /\ ~Contains(lowered, <<"s","o","f","t","w","a","r","e">>)
     /\ ~Contains(lowered, <<"e","n","g","i","n","e","e","r">>)
     /\ ~(Contains(lowered, <<"d","a","t","a">>)
            /\ Contains(lowered, <<"s","c","i","e","n","t","i","s","t">>))
     /\ ~Contains(lowered, <<"a","i">>)

\* the list the generic phases are cut from
TopicList == IF skills = << >> THEN PlaceholderTopics ELSE skills

MinOf(a, b) == IF a < b THEN a ELSE b

GenericFallbackBuilt ==
  pc = "enrich" /\ GenerativeUnavailable /\ MatchesNoTemplate(career_name)

\* C17 as stated: the three generic phases hold the first 5, the next 5 and
\* the remaining entries of the topic list, an empty slice being replaced by
\* the first three entries
C17_SlicesWithBackfillOfThree ==
  GenericFallbackBuilt =>
    LET n == Len(TopicList)
        firstThree == SubSeq(TopicList, 1, MinOf(3, n))
        orFirstThree(slice) == IF slice = << >> THEN firstThree ELSE slice
    IN /\ PhaseNames(roadmap) = <<"Foundation", "Intermediate", "Advanced">>
       /\ roadmap.phases[1].topics = orFirstThree(SubSeq(TopicList, 1, MinOf(5, n)))
       /\ roadmap.phases[2].topics = orFirstThree(SubSeq(TopicList, 6, MinOf(10, n)))
       /\ roadmap.phases[3].topics = orFirstThree(SubSeq(TopicList, 11, n))

\* C17 (amended): the three generic phases are Foundation with the first 5
\* entries, Intermediate with entries 6..10, or the first 5 again when the
\* list has at most 5, and Advanced with the entries after the tenth, or
\* entries 6..10 again when the list has exactly 10, or the first 5 again
\* when it has fewer than 10; no phase is empty
C17_SlicesWithRepeatedTopics ==
  GenericFallbackBuilt =>
    LET n == Len(TopicList)
        firstFive == SubSeq(TopicList, 1, MinOf(5, n))
    IN /\ PhaseNames(roadmap) = <<"Foundation", "Intermediate", "Advanced">>
       /\ roadmap.phases[1].topics = firstFive
       /\ roadmap.phases[2].topics =
            (IF n <= 5 THEN firstFive ELSE SubSeq(TopicList, 6, MinOf(10, n)))
       /\ roadmap.phases[3].topics =
            (IF n < 10 THEN firstFive
             ELSE IF n = 10 THEN SubSeq(TopicList, 6, 10)
             ELSE SubSeq(TopicList, 11, n))
       /\ \A i \in 1..3 : roadmap.phases[i].topics # << >>

C17_Witness ==
  /\ GenericFallbackBuilt
  /\ career_name = BiologistName
  /\ Len(skills) = 6
  /\ roadmap.phases[2].topics = <<skills[6]>>
  /\ roadmap.phases[3].topics = SubSeq(skills, 1, 5)

\* C18: every query of the aggregation (the career name and each of the
\* first 5 skills) has a fetch task for every configured provider
C18_EveryQueryToEveryProvider ==
  fetches.stage # "idle" =>
    \A q \in 0..MinOf(5, Len(skills)), p \in api_keys :
      \E t \in 1..Len(fetches.tasks) :
        fetches.tasks[t].provider = p /\ fetches.tasks[t].query = q

\* C19: after an aggregation the URL of every curated entry of the
\* roadmap's career occurs in the roadmap's resource list
C19_CuratedAlwaysPresent ==
  Aggregated =>
    LET curated == CareerSpecificResources(RoadmapCareer(roadmap))
    IN \A k \in 1..Len(curated) :
         \E i \in 1..Len(roadmap.resources) : roadmap.resources[i].url = curated[k].url

\* C20: after enrichment phase i (counted from 0) carries 2 to 5 resources:
\* entries i*5 .. i*5+4 of the de-duplicated list, or the first two curated
\* entries when that slice has fewer than 2
C20_PhaseResourceSlices ==
  Aggregated =>
    LET unique == UniqueResources(all_resources)
        curated == CareerSpecificResources(RoadmapCareer(roadmap))
    IN \A p \in 1..Len(roadmap.phases) :
         LET slice == SubSeq(unique, (p - 1) * 5 + 1, MinOf(p * 5, Len(unique)))
             phase == roadmap.phases[p]
         IN /\ phase.hasResources
            /\ Len(phase.resources) \in 2..5
            /\ phase.resources = (IF Len(slice) < 2 THEN SubSeq(curated, 1, 2) ELSE slice)

(**************************** milestone synthesis ****************************)
\* one milestone per topic, the phases in order, at most 5 topics of a phase
RECURSIVE WalkedTopics(_, _, _)
WalkedTopics(phases, p, acc) ==
  IF p > Len(phases) THEN acc
  ELSE WalkedTopics(phases, p + 1,
                    acc \o SubSeq(phases[p].topics, 1, MinOf(5, Len(phases[p].topics))))

SynthesisAsClaimed(before, after) ==
  LET walked == WalkedTopics(before.phases, 1, << >>)
      room == 12 - Len(before.milestones)
      added == SubSeq(walked, 1, MinOf(room, Len(walked)))
  IN IF Len(before.milestones) >= 10
     THEN after.milestones = before.milestones
     ELSE /\ Len(after.milestones) = Len(before.milestones) + Len(added)
          /\ SubSeq(after.milestones, 1, Len(before.milestones)) = before.milestones
          /\ \A k \in 1..Len(added) :
               after.milestones[Len(before.milestones) + k].topic = added[k]
          /\ Len(after.milestones) <= 12

\* C21: the milestone step leaves a roadmap with 10 or more milestones
\* unchanged; with fewer it keeps the existing milestones at the front and
\* appends one milestone per topic, the phases in order, at most 5 topics of
\* a phase, until the list has 12 entries
C21_SynthesisWalksPhases ==
  [][(pc = "milestones" /\ pc' = "completion" /\ roadmap.isDict)
       => SynthesisAsClaimed(roadmap, roadmap')]_vars

\* the same for roadmaps whose phases and topics are lists
C21_WellTyped ==
  [][(pc = "milestones" /\ pc' = "completion" /\ ~EnsureMilestonesRaises(roadmap))
       => SynthesisAsClaimed(roadmap, roadmap')]_vars

(******************************* chat turns **********************************)
ToolElected == turn.function_calls # << >>
ToolExecuted == turn.function_results # << >>
RegisteredToolExecuted ==
  ToolExecuted /\ turn.function_results[1].function_name \in RegisteredFunctions
ToolModelCalls == IF ToolExecuted /\ turn.function_results[1].model_called THEN 1 ELSE 0
ToolRaisedCalls == IF ToolExecuted /\ turn.function_results[1].model_raised THEN 1 ELSE 0
FinalRequestIssued == turn.final_step
FinalRequestRaised == FinalRequestIssued /\ turn.raised_calls = ToolRaisedCalls + 1
BoolToNat(b) == IF b THEN 1 ELSE 0

C25_HistoryIsCompletePairs ==
  \A u \in DOMAIN memory :
    /\ Len(memory[u]) % 2 = 0
    /\ \A i \in 1..Len(memory[u]) :
         IF i % 2 = 1
         THEN /\ memory[u][i].type = "user"
              /\ i < Len(memory[u])
              /\ memory[u][i + 1].type = "assistant"
              /\ memory[u][i + 1].timestamp = memory[u][i].timestamp
         ELSE memory[u][i].type = "assistant"

InitialCallRaised ==
  TurnDone /\ turn.has_error /\ turn.raised_calls = 1 /\ ~ToolElected

\* C26: a step of a turn whose initial model call raises leaves the stored
\* history as it was, and the preferences of the user hold the supplied
\* context when the turn has failed; a step of a turn without a user id
\* changes neither the history map nor the preference map
C26_FailedTurnFrame ==
  [][/\ (turn'.pc = "initial_call" \/ InitialCallRaised')
          => (memory' = memory /\ appended' = appended)
     /\ (InitialCallRaised' /\ turn'.user_id # NoUser /\ turn'.context.given)
          => /\ turn'.user_id \in DOMAIN preferences'
             /\ InSeq(turn'.context.career_path, preferences'[turn'.user_id].career_interests)
             /\ preferences'[turn'.user_id].current_skills = turn'.context.user_skills
             /\ preferences'[turn'.user_id].experience_level = turn'.context.experience_level
             /\ preferences'[turn'.user_id].preferred_learning_style = turn'.context.learning_style
     /\ (turn'.pc # "idle" /\ turn'.user_id = NoUser)
          => (memory' = memory /\ preferences' = preferences)]_vars

C26_Witness ==
  /\ InitialCallRaised
  /\ turn.user_id = "user-1"
  /\ turn.context.given
  /\ Len(DictGet(memory, "user-1", << >>)) = 4
  /\ turn.timestamp = 3
  /\ DictGet(preferences, "user-1", EmptyPreferences).career_interests = <<"Data Scientist">>

ToolFailed ==
  /\ ToolExecuted
  /\ turn.function_results[1].error # ""

\* C27: the summary sent with the summarising request presents every failed
\* tool call as "Unable to complete analysis"
C27_FailedToolPresentedAsFailed ==
  (FinalRequestIssued /\ ToolFailed) =>
    \A i \in 1..Len(turn.function_results) :
      turn.function_results[i].error # "" => turn.summary[i] = "Unable to complete analysis"

(****************************** career field *********************************)
\* C24: the roadmap generate_roadmap returns carries the requested career
\* name in its career field, and the curated resources are those of that name
C24_CareerIsRequestedName ==
  /\ Returned =>
       /\ roadmap.isDict
       /\ roadmap.careerType = "str"
       /\ roadmap.career = career_name
  /\ Aggregated =>
       CareerSpecificResources(RoadmapCareer(roadmap)) = CareerSpecificResources(career_name)

(*************************** phase resources *********************************)
\* C29: the URL of every resource attached to a phase of the returned
\* roadmap occurs in the roadmap's top-level resource list
C29_PhaseResourcesInTopLevelList ==
  (Returned /\ roadmap.isDict) =>
    \A p \in 1..Len(roadmap.phases) :
      \A k \in 1..Len(roadmap.phases[p].resources) :
        \E i \in 1..Len(roadmap.resources) :
          roadmap.resources[i].url = roadmap.phases[p].resources[k].url

\* the same for roadmaps of at most 4 phases
C29_UpToFourPhases ==
  (Returned /\ roadmap.isDict /\ Len(roadmap.phases) <= 4) =>
    \A p \in 1..Len(roadmap.phases) :
      \A k \in 1..Len(roadmap.phases[p].resources) :
        \E i \in 1..Len(roadmap.resources) :
          roadmap.resources[i].url = roadmap.phases[p].resources[k].url

(************************* two turns at the same time ************************)
PairEntries(s) ==
  MemoryEntries(pair[s].message, pair[s].final_response, pair[s].timestamp, pair[s].context)
BothTurnsSucceeded ==
  \A s \in TurnSlots : pair[s].pc = "done" /\ ~pair[s].has_error
StoredHistory == DictGet(memory, PairUser, << >>)

\* C28: when two turns of one user that ran at the same time have both
\* succeeded, the stored history is the last 15 entries of the earlier
\* history followed by the two pairs, one after the other in either order
C28_BothPairsStored ==
  BothTurnsSucceeded =>
    \E first \in TurnSlots, second \in TurnSlots, n \in PriorTurnCounts :
      /\ first # second
      /\ pair[first].timestamp = n + 1
      /\ StoredHistory =
           LastN(PriorHistory(n) \o PairEntries(first) \o PairEntries(second), 15)

\* both calls were in flight at the same time, the one started first stored
\* its pair last, and the cap cut the history
C28_Witness ==
  /\ BothTurnsSucceeded
  /\ pair["b"].timestamp = 7
  /\ pair["a"].prompt_history = pair["b"].prompt_history
  /\ pair["b"].final_step
  /\ Len(StoredHistory) = 15
  /\ StoredHistory[15].reply = pair["a"].final_response
  /\ StoredHistory[15].timestamp = pair["a"].timestamp
  /\ StoredHistory[12].content = LearnMessage

(********************************* job search ********************************)
JobsReturned == job_search.pc = "done"

\* C30: search_jobs returns at most limit jobs, from the live API and from
\* the fallback data
C30_AtMostLimitJobs ==
  JobsReturned => Len(job_search.jobs) <= job_search.limit

\* the same on the live path alone
C30_LivePath ==
  (JobsReturned /\ job_search.path = "live") => Len(job_search.jobs) <= job_search.limit
====
